---------------------------- MODULE Spec2Model ----------------------------
(***************************************************************************)
(* Model of the document-date logic of src/functions.py:                   *)
(*   parse_document_metadata, _get_node_creation_date and                  *)
(*   DatePriorityPostprocessor.postprocess_nodes;                          *)
(* of clean_text in src/main.py and src/main_GeminiCloud.py; of the        *)
(* module-level _cache of src/functions.py with the operations on it; of   *)
(* retry_with_backoff and the functions it decorates; and of the prompt    *)
(* handling of the chat pages.                                             *)
(*                                                                         *)
(* A Python str is a sequence of one-character strings.  The marker glyph  *)
(* U+2605 is written "STAR".  A Python value that may be of several types  *)
(* is a record [tag, s, d]: tag names the type, s holds the characters of  *)
(* a str, d the fields of a datetime.                                      *)
(***************************************************************************)
EXTENDS Integers, Sequences, FiniteSets, TLC

VARIABLES
    pc,            \* position of the modelled caller: "idle" or "done"
    stamps,        \* the markers stamped into the text, in order
    text,          \* argument of parse_document_metadata
    parsed,        \* its outcome
    node,          \* argument of _get_node_creation_date
    resolved,      \* its outcome
    retrieved,     \* the list the retriever produced (its order at the call)
    nodes,         \* the list object handed to postprocess_nodes
    sorted_nodes,  \* the list postprocess_nodes returns
    outcome,       \* "none", "returned" or "raised"
    reranked,      \* the result of postprocess_nodes on its own result
    impl,          \* which clean_text the chat page runs: "main" or "gemini"
    response,      \* the answer text of the query engine
    cleaned,       \* the outcome of clean_text on the answer
    content,       \* the content of the message stored in the chat history
    shown,         \* the outcome of clean_text on the stored message
    messages,      \* st.session_state.messages
    cache,         \* _cache of functions.py
    handles,       \* how many objects the constructors have made
    calls,         \* how many calls have been made
    mutations,     \* how many successful document-set mutations have returned
    invalidations, \* how many invalidations of the cache have completed
    built,         \* constructions by use_cache=True calls since the slot was cleared
    tpc,           \* where each thread stands in create_query_engine
    locals,        \* the local variables of each thread's create_query_engine
    ret,           \* what the call that returned last returned, and to which thread
    wrapper,       \* the arguments and local variables of the retry wrapper
    history,       \* the calls the wrapper has made and its sleeps, in order
    result         \* what the wrapper returned or raised

\* The variables of a re-ranking call.
rerank_vars == <<retrieved, nodes, sorted_nodes, outcome, reranked>>

\* The variables of the date parsing and resolution.
parse_vars == <<stamps, text, parsed, node, resolved>>

\* The variables of the chat page.
chat_vars == <<impl, response, cleaned, content, shown, messages>>

\* The variables of the cache and of the calls that use it.
cache_vars ==
    <<cache, handles, calls, mutations, invalidations, built, tpc, locals, ret>>

\* The variables of the retry wrapper.
retry_vars == <<wrapper, history, result>>

\* The variables the calls on the cache leave alone.
other_vars == <<pc, parse_vars, rerank_vars, chat_vars, retry_vars>>

vars == <<pc, parse_vars, rerank_vars, chat_vars, cache_vars, retry_vars>>

---------------------------------------------------------------------------
(* Characters and the character classes of Python's re module.             *)

Digits == {"0", "1", "2", "3", "4", "5", "6", "7", "8", "9"}

LowerLetters ==
    {"a", "b", "c", "d", "e", "f", "g", "h", "i", "j", "k", "l", "m",
     "n", "o", "p", "q", "r", "s", "t", "u", "v", "w", "x", "y", "z"}

UpperLetters ==
    {"A", "B", "C", "D", "E", "F", "G", "H", "I", "J", "K", "L", "M",
     "N", "O", "P", "Q", "R", "S", "T", "U", "V", "W", "X", "Y", "Z"}

\* \d
IsDigit(c) == c \in Digits

\* \w
IsWord(c) == c \in Digits \cup LowerLetters \cup UpperLetters \cup {"_"}

\* \s
IsSpace(c) == c \in {" ", "\n", "\t"}

DigitVal(c) ==
    CASE c = "0" -> 0 [] c = "1" -> 1 [] c = "2" -> 2 [] c = "3" -> 3
      [] c = "4" -> 4 [] c = "5" -> 5 [] c = "6" -> 6 [] c = "7" -> 7
      [] c = "8" -> 8 [] c = "9" -> 9

\* str.lower() on one ASCII character
ToLower(c) ==
    CASE c = "A" -> "a" [] c = "B" -> "b" [] c = "C" -> "c" [] c = "D" -> "d"
      [] c = "E" -> "e" [] c = "F" -> "f" [] c = "G" -> "g" [] c = "H" -> "h"
      [] c = "I" -> "i" [] c = "J" -> "j" [] c = "K" -> "k" [] c = "L" -> "l"
      [] c = "M" -> "m" [] c = "N" -> "n" [] c = "O" -> "o" [] c = "P" -> "p"
      [] c = "Q" -> "q" [] c = "R" -> "r" [] c = "S" -> "s" [] c = "T" -> "t"
      [] c = "U" -> "u" [] c = "V" -> "v" [] c = "W" -> "w" [] c = "X" -> "x"
      [] c = "Y" -> "y" [] c = "Z" -> "z" [] OTHER -> c

Lower(s) == [i \in 1..Len(s) |-> ToLower(s[i])]

\* The slice s[a..b] (1-based, inclusive); empty when b < a.
Slice(s, a, b) == SubSeq(s, a, b)

\* int() of a string of decimal digits
RECURSIVE ToInt(_)
ToInt(s) ==
    IF Len(s) = 0 THEN 0
    ELSE 10 * ToInt(Slice(s, 1, Len(s) - 1)) + DigitVal(s[Len(s)])

\* Length of the longest run of digits / word characters / whitespace
\* that starts at position i of s: what a greedy \d+, \w+ or \s+ consumes.
RECURSIVE DigitRun(_, _)
DigitRun(s, i) ==
    IF i <= Len(s) /\ IsDigit(s[i]) THEN 1 + DigitRun(s, i + 1) ELSE 0

RECURSIVE WordRun(_, _)
WordRun(s, i) ==
    IF i <= Len(s) /\ IsWord(s[i]) THEN 1 + WordRun(s, i + 1) ELSE 0

RECURSIVE SpaceRun(_, _)
SpaceRun(s, i) ==
    IF i <= Len(s) /\ IsSpace(s[i]) THEN 1 + SpaceRun(s, i + 1) ELSE 0

---------------------------------------------------------------------------
(* datetime                                                                *)

\* A datetime: calendar fields and whether it carries a UTC offset.
\* Every aware value of the model has offset +00:00.
Date(y, m, d, aware) == [year |-> y, month |-> m, day |-> d, aware |-> aware]

\* datetime.min
DatetimeMin == Date(1, 1, 1, FALSE)

\* Placeholder in the d field of a value that is no datetime.
NoDate == Date(0, 0, 0, FALSE)

IsLeap(y) == (y % 4 = 0 /\ y % 100 # 0) \/ y % 400 = 0

DaysInMonth(y, m) ==
    IF m = 2 THEN (IF IsLeap(y) THEN 29 ELSE 28)
    ELSE IF m \in {4, 6, 9, 11} THEN 30 ELSE 31

\* The datetime(y, m, d) constructor accepts exactly these arguments;
\* for any other it raises ValueError.
ValidYMD(y, m, d) ==
    /\ y >= 1 /\ y <= 9999
    /\ m >= 1 /\ m <= 12
    /\ d >= 1 /\ d <= DaysInMonth(y, m)

\* The order of two datetimes of the same awareness (Python's <).
DateLess(a, b) ==
    \/ a.year < b.year
    \/ a.year = b.year /\ a.month < b.month
    \/ a.year = b.year /\ a.month = b.month /\ a.day < b.day

---------------------------------------------------------------------------
(* Python values                                                           *)

\* A key or attribute that is not there.
Absent == [tag |-> "absent", s |-> <<>>, d |-> NoDate]

PyNone == [tag |-> "none", s |-> <<>>, d |-> NoDate]

\* An int (any non-zero int behaves alike in the code below).
PyInt == [tag |-> "int", s |-> <<>>, d |-> NoDate]

PyStr(chars) == [tag |-> "str", s |-> chars, d |-> NoDate]

PyDatetime(dt) == [tag |-> "datetime", s |-> <<>>, d |-> dt]

\* Python's truth value of a value: `not text` is ~Truthy(text).
Truthy(v) ==
    CASE v.tag = "none" -> FALSE
      [] v.tag = "absent" -> FALSE
      [] v.tag = "str" -> Len(v.s) > 0
      [] OTHER -> TRUE

---------------------------------------------------------------------------
(* parse_document_metadata                                                 *)

\* The position behind the run of digits, word characters or whitespace
\* that starts at position i.
EndDigits(s, i) == i + DigitRun(s, i)

EndWord(s, i) == i + WordRun(s, i)

EndSpaces(s, i) == i + SpaceRun(s, i)

NoMatch == [matched |-> FALSE, group1 |-> <<>>, group2 |-> <<>>]

\* One attempt of _DOCUMENT_META_PATTERN at position i of s:
\*     STAR NO \. (\d+) \s+ ( \w{3,9} \s+ \d{1,2} \s+ \d{4} )
\* Neighbouring pieces are disjoint character classes, so every greedy
\* piece but the last must consume its whole run: backtracking into a
\* shorter run leaves a character the next piece cannot take.  The last
\* piece takes the first four digits of its run.
PatternAt(s, i) ==
    LET p1 == i + 4                  \* start of (\d+)
        p2 == EndDigits(s, p1)       \* start of \s+
        p3 == EndSpaces(s, p2)       \* start of \w{3,9}
        p4 == EndWord(s, p3)         \* start of \s+
        p5 == EndSpaces(s, p4)       \* start of \d{1,2}
        p6 == EndDigits(s, p5)       \* start of \s+
        p7 == EndSpaces(s, p6)       \* start of \d{4}
    IN  IF /\ i + 3 <= Len(s)
           /\ s[i] = "STAR" /\ s[i + 1] = "N" /\ s[i + 2] = "O" /\ s[i + 3] = "."
           /\ p2 > p1
           /\ p3 > p2
           /\ p4 - p3 \in 3..9
           /\ p5 > p4
           /\ p6 - p5 \in 1..2
           /\ p7 > p6
           /\ DigitRun(s, p7) >= 4
        THEN [matched |-> TRUE,
              group1  |-> Slice(s, p1, p2 - 1),
              group2  |-> Slice(s, p3, p7 + 3)]
        ELSE NoMatch

\* The leftmost position at or after i where the pattern matches; 0 when
\* there is none.
RECURSIVE FirstMatchFrom(_, _)
FirstMatchFrom(s, i) ==
    IF i > Len(s) THEN 0
    ELSE IF PatternAt(s, i).matched THEN i
    ELSE FirstMatchFrom(s, i + 1)

\* The rightmost position at or before i where the pattern matches; 0 when
\* there is none.
RECURSIVE LastMatchFrom(_, _)
LastMatchFrom(s, i) ==
    IF i < 1 THEN 0
    ELSE IF PatternAt(s, i).matched THEN i
    ELSE LastMatchFrom(s, i - 1)

\* The match at position i, no match when i is 0.
MatchOrNone(s, i) == IF i = 0 THEN NoMatch ELSE PatternAt(s, i)

\* A search that keeps the last match instead of the first.
PatternSearchLast(s) == MatchOrNone(s, LastMatchFrom(s, Len(s)))

\* _DOCUMENT_META_PATTERN.search(s): the match at the leftmost position
\* where the pattern matches, or no match.
PatternSearch(s) == MatchOrNone(s, FirstMatchFrom(s, 1))

\* The month abbreviations %b accepts (C locale), lower case.
MonthAbbr ==
    << <<"j", "a", "n">>, <<"f", "e", "b">>, <<"m", "a", "r">>,
       <<"a", "p", "r">>, <<"m", "a", "y">>, <<"j", "u", "n">>,
       <<"j", "u", "l">>, <<"a", "u", "g">>, <<"s", "e", "p">>,
       <<"o", "c", "t">>, <<"n", "o", "v">>, <<"d", "e", "c">> >>

\* The number of the month whose abbreviation is mon; 0 when there is none.
MonthNumber(mon) ==
    IF \E k \in 1..12 : MonthAbbr[k] = mon
    THEN CHOOSE k \in 1..12 : MonthAbbr[k] = mon
    ELSE 0

\* The datetime of the fields y, m, d; ok = FALSE is ValueError.
MakeDatetime(y, m, d, aware) ==
    IF ValidYMD(y, m, d) THEN [ok |-> TRUE, d |-> Date(y, m, d, aware)]
    ELSE [ok |-> FALSE, d |-> NoDate]

ValueError == [ok |-> FALSE, d |-> NoDate]

\* The fields of a string that has its day at q1..q2-1 and its year at q3.
StrptimeFields(ds, q1, q2, q3) ==
    IF /\ q1 > 4
       /\ q2 - q1 \in {1, 2}
       /\ ToInt(Slice(ds, q1, q2 - 1)) \in 1..31
       /\ q3 > q2
       /\ DigitRun(ds, q3) >= 4
       /\ q3 + 3 = Len(ds)
    THEN MakeDatetime(ToInt(Slice(ds, q3, q3 + 3)),
                      MonthNumber(Lower(Slice(ds, 1, 3))),
                      ToInt(Slice(ds, q1, q2 - 1)), FALSE)
    ELSE ValueError

\* datetime.strptime(ds, "%b %d %Y").  The format compiles to
\*     (jan|feb|...|dec) \s+ (3[0-1]|[1-2]\d|0[1-9]|[1-9]| [1-9]) \s+ (\d\d\d\d)
\* matched ignoring case at the start of ds; the whole of ds must be
\* consumed, and the fields must form a date.  ok = FALSE is ValueError.
Strptime(ds) ==
    IF Len(ds) >= 3 /\ MonthNumber(Lower(Slice(ds, 1, 3))) # 0
    THEN StrptimeFields(ds, EndSpaces(ds, 4),
                        EndDigits(ds, EndSpaces(ds, 4)),
                        EndSpaces(ds, EndDigits(ds, EndSpaces(ds, 4))))
    ELSE ValueError

\* Outcomes of parse_document_metadata: None, a dict, or an exception.
ParsedNone == [tag |-> "none", no |-> 0, creation_date |-> NoDate]

ParsedRaise == [tag |-> "raise", no |-> 0, creation_date |-> NoDate]

ParsedDict(n, dt) == [tag |-> "dict", no |-> n, creation_date |-> dt]

\* The try block of parse_document_metadata on a match, and its except
\* clause: ValueError is caught and None returned, a warning logged.
ParseMatch(doc_no, cd) ==
    IF cd.ok THEN ParsedDict(doc_no, cd.d) ELSE ParsedNone

\* The try block without the except clause: ValueError escapes.
ParseMatchUncaught(doc_no, cd) ==
    IF cd.ok THEN ParsedDict(doc_no, cd.d) ELSE ParsedRaise

ParseFound(match) ==
    IF ~match.matched THEN ParsedNone
    ELSE ParseMatch(ToInt(match.group1), Strptime(match.group2))

\* parse_document_metadata without its except clause: the ValueError of
\* strptime escapes.
parse_document_metadata_uncaught(t) ==
    IF ~Truthy(t) THEN ParsedNone
    ELSE IF t.tag # "str" THEN ParsedRaise
    ELSE IF ~PatternSearch(t.s).matched THEN ParsedNone
    ELSE ParseMatchUncaught(ToInt(PatternSearch(t.s).group1),
                            Strptime(PatternSearch(t.s).group2))

\* parse_document_metadata numbering documents from zero: one less than
\* the digits say.
parse_document_metadata_zero_based(t) ==
    IF ~Truthy(t) THEN ParsedNone
    ELSE IF t.tag # "str" THEN ParsedRaise
    ELSE IF ~PatternSearch(t.s).matched THEN ParsedNone
    ELSE ParseMatch(ToInt(PatternSearch(t.s).group1) - 1,
                    Strptime(PatternSearch(t.s).group2))

\* parse_document_metadata(text)
parse_document_metadata(t) ==
    IF ~Truthy(t) THEN ParsedNone
    ELSE IF t.tag # "str" THEN ParsedRaise   \* re search: TypeError, outside the try
    ELSE ParseFound(PatternSearch(t.s))

---------------------------------------------------------------------------
(* _get_node_creation_date                                                 *)

AllDigits(s, a, b) == \A i \in a..b : IsDigit(s[i])

\* datetime.fromisoformat(s) for the forms YYYY-MM-DD, YYYY-MM-DDTHH:MM:SS
\* and YYYY-MM-DDTHH:MM:SS+HH:MM (any separator in place of T).  The time
\* of day is checked and then dropped: every datetime of the model is at
\* midnight, and every offset is +00:00.  ok = FALSE is ValueError.
FromIsoformat(s) ==
    LET n      == Len(s)
        dateOk == /\ n >= 10
                  /\ AllDigits(s, 1, 4) /\ s[5] = "-"
                  /\ AllDigits(s, 6, 7) /\ s[8] = "-"
                  /\ AllDigits(s, 9, 10)
                  /\ ValidYMD(ToInt(Slice(s, 1, 4)), ToInt(Slice(s, 6, 7)),
                              ToInt(Slice(s, 9, 10)))
        timeOk == /\ n >= 19
                  /\ AllDigits(s, 12, 13) /\ s[14] = ":"
                  /\ AllDigits(s, 15, 16) /\ s[17] = ":"
                  /\ AllDigits(s, 18, 19)
                  /\ ToInt(Slice(s, 12, 13)) <= 23
                  /\ ToInt(Slice(s, 15, 16)) <= 59
                  /\ ToInt(Slice(s, 18, 19)) <= 59
        offOk  == /\ n = 25
                  /\ s[20] \in {"+", "-"}
                  /\ AllDigits(s, 21, 22) /\ s[23] = ":"
                  /\ AllDigits(s, 24, 25)
                  /\ ToInt(Slice(s, 21, 22)) <= 23
                  /\ ToInt(Slice(s, 24, 25)) <= 59
        ok     == dateOk /\ (n = 10 \/ (timeOk /\ (n = 19 \/ offOk)))
    IN  [ok |-> ok,
         d  |-> IF ok
                THEN Date(ToInt(Slice(s, 1, 4)), ToInt(Slice(s, 6, 7)),
                          ToInt(Slice(s, 9, 10)), n = 25)
                ELSE NoDate]

\* re.match(r'lpg(\d{2})(\d{2})(\d{2})\.pdf', file_name): the pattern is
\* anchored at the start of the name only.
FileNameMatch(s) ==
    /\ Len(s) >= 13
    /\ s[1] = "l" /\ s[2] = "p" /\ s[3] = "g"
    /\ AllDigits(s, 4, 9)
    /\ s[10] = "." /\ s[11] = "p" /\ s[12] = "d" /\ s[13] = "f"

\* The first year of the century the two-digit year of a file name is in.
BaseYear == 2000

\* A node's metadata attribute: missing, None, or a dict with (possibly
\* absent) keys creation_date and file_name.
MetaMissing == [tag |-> "absent", creation_date |-> Absent, file_name |-> Absent]

MetaNone == [tag |-> "none", creation_date |-> Absent, file_name |-> Absent]

MetaDict(cd, fn) == [tag |-> "dict", creation_date |-> cd, file_name |-> fn]

\* A NodeWithScore: the identity of the object, its score (in hundredths),
\* and the metadata and text attributes of its node.
Node(id, score, meta, txt) ==
    [id |-> id, score |-> score, metadata |-> meta, text |-> txt]

\* No node: the value of a variable that holds none yet.
NoNode == Node(0, 0, MetaMissing, Absent)

\* Outcomes of _get_node_creation_date: a datetime, None, or an exception.
\* tier names the return statement that produced a datetime.
Resolved(dt, tier) == [tag |-> "date", d |-> dt, tier |-> tier]

ResolvedNone == [tag |-> "none", d |-> NoDate, tier |-> "none"]

ResolvedRaise == [tag |-> "raise", d |-> NoDate, tier |-> "none"]

\* metadata = getattr(node.node, 'metadata', {}) or {}
MetadataOrEmpty(n) ==
    IF n.metadata.tag = "dict" THEN n.metadata ELSE MetaDict(Absent, Absent)

\* return datetime.fromisoformat(val), and pass on ValueError
IsoOutcome(r) == IF r.ok THEN Resolved(r.d, "meta") ELSE ResolvedNone

\* The first tier: the creation_date entry of the metadata, when it is a
\* datetime or a string fromisoformat accepts.
PriorOf(val) ==
    IF val.tag = "absent" THEN ResolvedNone            \* key not in metadata
    ELSE IF val.tag = "datetime" THEN Resolved(val.d, "meta")
    ELSE IF val.tag = "str" THEN IsoOutcome(FromIsoformat(val.s))
    ELSE ResolvedNone                                  \* TypeError: pass

PriorDate(n) == PriorOf(MetadataOrEmpty(n).creation_date)

\* The second tier: parse_document_metadata of the node's text ('' when the
\* node has no text attribute).
TextOutcome(p) ==
    IF p.tag = "raise" THEN ResolvedRaise
    ELSE IF p.tag = "dict" THEN Resolved(p.creation_date, "text")
    ELSE ResolvedNone

TextDate(n) ==
    TextOutcome(parse_document_metadata(
        IF n.text.tag = "absent" THEN PyStr(<<>>) ELSE n.text))

\* The third tier: the date in a file name lpgYYMMDD.pdf ('' when the
\* metadata has no file_name).
NameOutcome(r) == IF r.ok THEN Resolved(r.d, "fname") ELSE ResolvedNone

FileNameOf(fn) ==
    IF fn.tag = "absent" THEN ResolvedNone            \* '' does not match
    ELSE IF fn.tag # "str" THEN ResolvedRaise         \* re.match: TypeError
    ELSE IF FileNameMatch(fn.s)
         THEN NameOutcome(MakeDatetime(BaseYear + ToInt(Slice(fn.s, 4, 5)),
                                       ToInt(Slice(fn.s, 6, 7)),
                                       ToInt(Slice(fn.s, 8, 9)), FALSE))
    ELSE ResolvedNone

FileNameDate(n) == FileNameOf(MetadataOrEmpty(n).file_name)

\* The outcome of the first of three tiers, tried in this order, that
\* returns a datetime or raises; the outcome of the last when the first
\* two return nothing.
FirstDate(first, second, third) ==
    IF first.tag # "none" THEN first
    ELSE IF second.tag # "none" THEN second
    ELSE third

\* The tiers tried in the order metadata, file name, text.
get_node_creation_date_name_first(n) ==
    FirstDate(PriorDate(n), FileNameDate(n), TextDate(n))

\* The tiers tried in the order text, metadata, file name.
get_node_creation_date_text_first(n) ==
    FirstDate(TextDate(n), PriorDate(n), FileNameDate(n))

\* _get_node_creation_date(node)
get_node_creation_date(n) ==
    FirstDate(PriorDate(n), TextDate(n), FileNameDate(n))

---------------------------------------------------------------------------
(* Document texts                                                          *)

\* Most markers in one text.
MaxMarkers == 2

\* A marker as it is stamped on a page: the characters of its number,
\* month, day and year, whether whitespace separates number and month,
\* and the values those characters stand for (monVal 0: no month).
Stamp(num, numVal, gap, mon, monVal, day, dayVal, year, yearVal) ==
    [num |-> num, numVal |-> numVal, gap |-> gap,
     mon |-> mon, monVal |-> monVal, day |-> day, dayVal |-> dayVal,
     year |-> year, yearVal |-> yearVal]

Y2025 == <<"2", "0", "2", "5">>

Y2024 == <<"2", "0", "2", "4">>

StampPool ==
    { Stamp(<<"5", "7", "8", "8">>, 5788, TRUE, <<"J", "u", "n">>, 6, <<"1", "0">>, 10, Y2025, 2025),
      Stamp(<<"9", "9", "9", "9">>, 9999, TRUE, <<"A", "u", "g">>, 8, <<"0", "1">>, 1, Y2025, 2025),
      Stamp(<<"0">>, 0, TRUE, <<"J", "u", "n">>, 6, <<"1", "0">>, 10, Y2025, 2025),
      Stamp(<<"0", "0", "7">>, 7, TRUE, <<"f", "e", "b">>, 2, <<"2", "9">>, 29, Y2024, 2024),
      Stamp(<<"1", "2">>, 12, TRUE, <<"F", "e", "b">>, 2, <<"3", "0">>, 30, Y2025, 2025),
      Stamp(<<"1", "2">>, 12, TRUE, <<"X", "y", "z">>, 0, <<"1", "0">>, 10, Y2025, 2025),
      Stamp(<<"1", "2">>, 12, TRUE, <<"1", "2", "3">>, 0, <<"1", "0">>, 10, Y2025, 2025),
      Stamp(<<"1", "2">>, 12, TRUE, <<"J", "u", "n", "e">>, 0, <<"1", "0">>, 10, Y2025, 2025),
      Stamp(<<"1", "2">>, 12, TRUE, <<"J", "u", "n">>, 6, <<"0">>, 0, Y2025, 2025),
      Stamp(<<"3">>, 3, TRUE, <<"J", "u", "n">>, 6, <<"1", "0">>, 10, <<"0", "0", "0", "0">>, 0),
      Stamp(<<"1", "2">>, 12, FALSE, <<"J", "u", "l">>, 7, <<"1", "1">>, 11, Y2025, 2025) }

\* The characters of one stamped marker.
RenderStamp(st) ==
    <<"STAR", "N", "O", ".">> \o st.num \o (IF st.gap THEN <<" ">> ELSE <<>>)
        \o st.mon \o <<" ">> \o st.day \o <<" ">> \o st.year

\* The characters of a page carrying the markers sts, each followed by
\* a line of body text.
RECURSIVE RenderStamps(_)
RenderStamps(sts) ==
    IF Len(sts) = 0 THEN <<>>
    ELSE RenderStamp(Head(sts)) \o <<"\n", "L", "P", "G", " ", "4", "5", "0", "\n">>
             \o RenderStamps(Tail(sts))

\* Text before the first marker.
Prefixes == { <<>>, <<"N", "O", ".", "1", " ">> }

\* Sequences over S of length at most n.
SeqUpTo(S, n) == UNION {[1..k -> S] : k \in 0..n}

StampLists == SeqUpTo(StampPool, MaxMarkers)

\* A marker is an occurrence of the pattern when whitespace separates
\* its number from its month (every pool entry has 3 to 9 month
\* characters, 1 or 2 day digits and 4 year digits).
IsOccurrence(st) == st.gap

\* An occurrence is well formed when its date part names a date.
WellFormed(st) ==
    /\ IsOccurrence(st)
    /\ st.monVal >= 1
    /\ ValidYMD(st.yearVal, st.monVal, st.dayVal)

Occurrences(sts) == {i \in 1..Len(sts) : IsOccurrence(sts[i])}

HasOccurrence(sts) == Occurrences(sts) # {}

FirstOccurrence(sts) ==
    sts[CHOOSE i \in Occurrences(sts) : \A j \in Occurrences(sts) : i <= j]

---------------------------------------------------------------------------
(* The module-level cache of functions.py and the operations that read or  *)
(* write it, run by the threads of the sessions of the application.  A     *)
(* step of a thread is one read or write of _cache; what a call does       *)
(* between two of them (requests, constructors) belongs to the step        *)
(* before.                                                                 *)

\* Sessions that run at the same time.
Threads == {1, 2}

\* Calls made in one run of the model.
MaxCalls == 3

\* Files of one batch, at most.
MaxFiles == 2

\* None, in a slot of _cache or a local variable.
NoHandle == [kind |-> "none", id |-> 0, muts |-> 0, inval |-> 0]

\* The object a constructor returns: the id tells objects apart; muts and
\* inval record how many document-set mutations had returned and how many
\* invalidations had completed when its construction started.
Handle(kind, id, muts, inval) == [kind |-> kind, id |-> id, muts |-> muts, inval |-> inval]

\* _cache = {'index': None, 'llm': None, 'query_engine': None}
EmptyCache == [index |-> NoHandle, llm |-> NoHandle, query_engine |-> NoHandle]

\* The local variables of a call of create_query_engine (or of
\* create_llama_cloud_index or create_gemini_llm, named by op); muts and
\* inval record the mutations and invalidations completed when it was made.
NoLocals == [op |-> "create_query_engine", use_cache |-> TRUE,
             index |-> NoHandle, llm |-> NoHandle,
             query_engine |-> NoHandle, muts |-> 0, inval |-> 0]

\* No construction since the slots were cleared.
NoneBuilt == [index |-> 0, llm |-> 0, query_engine |-> 0]

\* What a call returned (or raised); none before the first call.
NoReturn == [op |-> "none", thread |-> 0]

CacheIdle ==
    /\ cache = EmptyCache /\ handles = 0 /\ calls = 0
    /\ mutations = 0 /\ invalidations = 0 /\ built = NoneBuilt
    /\ tpc = [t \in Threads |-> "idle"]
    /\ locals = [t \in Threads |-> NoLocals]
    /\ ret = NoReturn


---------------------------------------------------------------------------
(* Specification of the metadata extractor: any text, then one call.       *)

\* No re-ranking call has been made.
NoResult == [outcome |-> "none", sorted_nodes |-> <<>>, nodes |-> <<>>]

RerankIdle ==
    /\ retrieved = <<>> /\ nodes = <<>> /\ sorted_nodes = <<>> /\ outcome = "none"
    /\ reranked = NoResult

\* No wrapper is running.
NoWrapper ==
    [func |-> "none", max_retries |-> 0, base_delay |-> 0, backoff_factor |-> 0,
     retryable_exceptions |-> {}, attempt |-> 0,
     last_exception |-> [exception |-> "none", attempt |-> 0]]

\* The wrapper has neither returned nor raised.
NoOutcome == [kind |-> "none", attempt |-> 0, value |-> <<>>, exception |-> "none"]

RetryIdle == wrapper = NoWrapper /\ history = <<>> /\ result = NoOutcome

\* clean_text has not been called.
NotCleaned == [tag |-> "none", s |-> <<>>]

\* The chat page has not been opened.
ChatIdle ==
    /\ impl = "main" /\ response = PyNone
    /\ cleaned = NotCleaned /\ content = <<>> /\ shown = NotCleaned
    /\ messages = <<>>

\* No text has been parsed and no node resolved.
ParseIdle ==
    /\ stamps = <<>> /\ text = PyNone /\ parsed = ParsedNone
    /\ node = NoNode /\ resolved = ResolvedNone

InitParse ==
    /\ pc = "idle"
    /\ \/ \E pre \in Prefixes, sts \in StampLists :
              /\ stamps = sts
              /\ text = PyStr(pre \o RenderStamps(sts))
       \/ /\ stamps = <<>>
          /\ text \in {PyNone, PyInt}
    /\ parsed = ParsedNone
    /\ node = NoNode /\ resolved = ResolvedNone
    /\ RerankIdle /\ ChatIdle /\ CacheIdle /\ RetryIdle

\* parsed = parse_document_metadata(text)
ParseText ==
    /\ pc = "idle"
    /\ parsed' = parse_document_metadata(text)
    /\ pc' = "done"
    /\ UNCHANGED <<stamps, text, node, resolved, rerank_vars, chat_vars, cache_vars, retry_vars>>

NextParse == ParseText

SpecParse == InitParse /\ [][NextParse]_vars

---------------------------------------------------------------------------
(* Properties of parse_document_metadata (under SpecParse)                 *)

\* The text is a string or None: what the extractor is documented to take.
IsText == text.tag \in {"str", "none"}

\* What the first occurrence of the marker stands for.
FirstValue ==
    LET f == FirstOccurrence(stamps)
    IN  ParsedDict(f.numVal, Date(f.yearVal, f.monVal, f.dayVal, FALSE))

\* C7 as stated: the result is None exactly when the text is empty or holds
\* no marker occurrence, and a well-formed first occurrence gives its number
\* and date.
C7_NoneExactlyWhenNoMarker ==
    (pc = "done" /\ IsText) =>
        /\ (parsed = ParsedNone) <=> (~Truthy(text) \/ ~HasOccurrence(stamps))
        /\ (HasOccurrence(stamps) /\ WellFormed(FirstOccurrence(stamps)))
               => parsed = FirstValue

\* C7 (amended): parse_document_metadata returns None exactly when the text
\* is empty, holds no marker occurrence, or its first occurrence has a date
\* part that is no valid date; otherwise the result carries the first
\* occurrence's digits as the integer document number and its month, day and
\* year as the creation date.  Later occurrences never influence the result.
C7_FirstOccurrenceDecides ==
    (pc = "done" /\ IsText) =>
        parsed = IF ~Truthy(text) \/ ~HasOccurrence(stamps) THEN ParsedNone
                 ELSE IF WellFormed(FirstOccurrence(stamps)) THEN FirstValue
                 ELSE ParsedNone

\* C7 witness: two well-formed occurrences with different numbers and
\* dates; the first one is returned.
C7_Witness ==
    /\ pc = "done"
    /\ Len(stamps) = 2
    /\ WellFormed(stamps[1]) /\ WellFormed(stamps[2])
    /\ stamps[1].numVal = 5788 /\ stamps[2].numVal = 9999
    /\ parsed = ParsedDict(5788, Date(2025, 6, 10, FALSE))

\* C8: when the pattern matches but the date part of the match is not a
\* valid date, parse_document_metadata returns None and does not raise.
C8_MalformedDateGivesNone ==
    (pc = "done" /\ IsText /\ HasOccurrence(stamps)
         /\ ~WellFormed(FirstOccurrence(stamps)))
        => parsed = ParsedNone

\* C8 witness: a first occurrence with an invalid month abbreviation, a day
\* out of range, or digits in place of the month has been parsed.
C8_Witness ==
    /\ pc = "done"
    /\ HasOccurrence(stamps)
    /\ LET f == FirstOccurrence(stamps)
       IN  \/ f.mon = <<"X", "y", "z">>
           \/ f.mon = <<"1", "2", "3">>
           \/ f.dayVal = 30 /\ f.monVal = 2
    /\ parsed = ParsedNone

\* C9 as stated: a result other than None has a document number of at
\* least 1.
C9_NumberPositive ==
    (pc = "done" /\ parsed.tag = "dict") => parsed.no >= 1

\* C9 (amended): whenever parse_document_metadata returns a value other than
\* None, its document number is a non-negative integer (at least 0; it is 0
\* for a marker whose digits are all zeros).
C9_NumberNonNegative ==
    (pc = "done" /\ parsed.tag = "dict") => parsed.no >= 0

\* C9 witness: the marker NO.0 parses to document number 0.
C9_Witness ==
    /\ pc = "done"
    /\ parsed.tag = "dict"
    /\ parsed.no = 0

---------------------------------------------------------------------------
(* Candidates                                                              *)

\* 'lpg250630.pdf'
NameJun30 == <<"l", "p", "g", "2", "5", "0", "6", "3", "0", ".", "p", "d", "f">>

\* 'lpg250101.pdf'
NameJan01 == <<"l", "p", "g", "2", "5", "0", "1", "0", "1", ".", "p", "d", "f">>

\* 'lpg250630.pdfx'
NameTrailing == <<"l", "p", "g", "2", "5", "0", "6", "3", "0", ".", "p", "d", "f", "x">>

\* 'lpg251330.pdf'
NameMonth13 == <<"l", "p", "g", "2", "5", "1", "3", "3", "0", ".", "p", "d", "f">>

\* 'lpg250229.pdf'
NameFeb29 == <<"l", "p", "g", "2", "5", "0", "2", "2", "9", ".", "p", "d", "f">>

\* 'xlpg250630.pdf'
NameLeading == <<"x", "l", "p", "g", "2", "5", "0", "6", "3", "0", ".", "p", "d", "f">>

\* 'LPG250630.pdf'
NameUpper == <<"L", "P", "G", "2", "5", "0", "6", "3", "0", ".", "p", "d", "f">>

\* 'lpg25063.pdf'
NameFiveDigits == <<"l", "p", "g", "2", "5", "0", "6", "3", ".", "p", "d", "f">>

\* 'lpg250630xpdf'
NameNoDot == <<"l", "p", "g", "2", "5", "0", "6", "3", "0", "x", "p", "d", "f">>

\* 'report.pdf'
NameReport == <<"r", "e", "p", "o", "r", "t", ".", "p", "d", "f">>

\* '2026-01-15'
Iso20260115 == <<"2", "0", "2", "6", "-", "0", "1", "-", "1", "5">>

\* '0001-01-01'
IsoMin == <<"0", "0", "0", "1", "-", "0", "1", "-", "0", "1">>

\* '2025-06-30T00:00:00+00:00'
IsoAware == <<"2", "0", "2", "5", "-", "0", "6", "-", "3", "0", "T", "0", "0", ":", "0", "0", ":", "0", "0", "+", "0", "0", ":", "0", "0">>

\* 'garbage'
IsoGarbage == <<"g", "a", "r", "b", "a", "g", "e">>

\* '2025-13-01'
IsoMonth13 == <<"2", "0", "2", "5", "-", "1", "3", "-", "0", "1">>

\* Values of the file_name entry of a candidate's metadata.
FileNamePool ==
    { Absent, PyNone, PyInt } \cup
    { PyStr(x) : x \in { NameJun30, NameJan01, NameTrailing, NameMonth13,
                         NameFeb29, NameLeading, NameUpper, NameFiveDigits,
                         NameNoDot, NameReport } }

\* Values of the creation_date entry of a candidate's metadata.
CreationDatePool ==
    { Absent, PyNone, PyInt, PyStr(<<>>),
      PyDatetime(Date(2025, 6, 30, FALSE)), PyDatetime(Date(2025, 6, 30, TRUE)) } \cup
    { PyStr(x) : x \in { Iso20260115, IsoMin, IsoAware, IsoGarbage, IsoMonth13 } }

\* Metadata attributes of a candidate.
MetadataPool ==
    { MetaMissing, MetaNone } \cup
    { MetaDict(cd, fn) : cd \in CreationDatePool, fn \in FileNamePool }

Stamp5788 ==
    Stamp(<<"5", "7", "8", "8">>, 5788, TRUE, <<"J", "u", "n">>, 6, <<"1", "0">>, 10, Y2025, 2025)

Stamp9999 ==
    Stamp(<<"9", "9", "9", "9">>, 9999, TRUE, <<"A", "u", "g">>, 8, <<"0", "1">>, 1, Y2025, 2025)

StampXyz ==
    Stamp(<<"1", "2">>, 12, TRUE, <<"X", "y", "z">>, 0, <<"1", "0">>, 10, Y2025, 2025)

StampNoGap ==
    Stamp(<<"1", "2">>, 12, FALSE, <<"J", "u", "l">>, 7, <<"1", "1">>, 11, Y2025, 2025)

\* The markers of the texts candidates carry.
NodeStampLists ==
    { <<>>, <<Stamp9999>>, <<StampXyz>>, <<StampNoGap>>,
      <<StampXyz, Stamp9999>>, <<Stamp5788, Stamp9999>> }

---------------------------------------------------------------------------
(* Specification of date resolution: any candidate, then one call.         *)

InitResolve ==
    /\ pc = "idle"
    /\ \E meta \in MetadataPool :
           \/ \E sts \in NodeStampLists :
                  /\ stamps = sts
                  /\ node = Node(1, 95, meta, PyStr(RenderStamps(sts)))
           \/ /\ stamps = <<>>
              /\ \E txt \in {Absent, PyNone, PyInt} : node = Node(1, 95, meta, txt)
    /\ resolved = ResolvedNone
    /\ text = PyNone /\ parsed = ParsedNone
    /\ RerankIdle /\ ChatIdle /\ CacheIdle /\ RetryIdle

\* resolved = _get_node_creation_date(node)
ResolveNode ==
    /\ pc = "idle"
    /\ resolved' = get_node_creation_date(node)
    /\ pc' = "done"
    /\ UNCHANGED <<stamps, text, parsed, node, rerank_vars, chat_vars, cache_vars, retry_vars>>

NextResolve == ResolveNode

SpecResolve == InitResolve /\ [][NextResolve]_vars

---------------------------------------------------------------------------
(* Properties of _get_node_creation_date (under SpecResolve)               *)

\* The date a creation_date entry stands for; NoDate when it is neither a
\* datetime nor a string that is an ISO date.
PriorTruth(v) ==
    CASE v.tag = "datetime" -> v.d
      [] v = PyStr(Iso20260115) -> Date(2026, 1, 15, FALSE)
      [] v = PyStr(IsoMin) -> Date(1, 1, 1, FALSE)
      [] v = PyStr(IsoAware) -> Date(2025, 6, 30, TRUE)
      [] OTHER -> NoDate

\* The candidate's prior metadata holds a valid creation_date.
HasValidPrior(n) ==
    /\ n.metadata.tag = "dict"
    /\ PriorTruth(n.metadata.creation_date) # NoDate

\* The candidate's prior metadata holds a creation_date entry.
HasPriorEntry(n) ==
    /\ n.metadata.tag = "dict"
    /\ n.metadata.creation_date.tag # "absent"

StampDate(st) == Date(st.yearVal, st.monVal, st.dayVal, FALSE)

\* The text holds a well-formed marker somewhere.
HoldsWellFormed(sts) == \E i \in 1..Len(sts) : WellFormed(sts[i])

\* The marker the extractor uses, the first occurrence, is well formed.
FirstWellFormed(sts) == HasOccurrence(sts) /\ WellFormed(FirstOccurrence(sts))

\* The candidate's text and file name are strings or missing.
StringFields(n) ==
    /\ n.text.tag \in {"absent", "none", "str"}
    /\ n.metadata.file_name.tag \in {"absent", "str"}

\* The file names of the pool in which the code finds a date.
NamesWithDate == { PyStr(NameJun30), PyStr(NameJan01), PyStr(NameTrailing) }

C6_FileNameOnlyWithoutMarkerAndEntry ==
    (pc = "done" /\ resolved.tier = "fname") =>
        /\ ~HasOccurrence(stamps)
        /\ ~HasPriorEntry(node)

\* C6 (amended): the file-name-derived date is used as a candidate's
\* resolved date only when the prior metadata holds no valid creation_date
\* (no entry, or an entry that is neither a datetime nor a parsable ISO
\* string) and the text yields no marker date (no marker occurrence, or a
\* first occurrence whose date part is invalid).
C6_FileNameOnlyAsLastResort ==
    (pc = "done" /\ resolved.tier = "fname") =>
        /\ ~HasValidPrior(node)
        /\ ~FirstWellFormed(stamps)

\* C6 witness: the file-name date is used for a candidate that has an
\* unparsable creation_date entry and a malformed marker in its text.
C6_Witness ==
    /\ pc = "done"
    /\ resolved = Resolved(Date(2025, 6, 30, FALSE), "fname")
    /\ node.metadata.creation_date = PyStr(IsoGarbage)
    /\ HasOccurrence(stamps)

\* The whole name is lpg, six digits and .pdf.
IsLpgName(s) ==
    /\ Len(s) = 13
    /\ Slice(s, 1, 3) = <<"l", "p", "g">>
    /\ \A i \in 4..9 : s[i] \in Digits
    /\ Slice(s, 10, 13) = <<".", "p", "d", "f">>

\* C10 as stated: with no prior creation_date and no inline marker, the file
\* name yields a date if and only if the whole name is lpg + YYMMDD + .pdf
\* with a valid month and day, and the date is then (2000+YY)-MM-DD.
C10_WholeNameDecides ==
    (/\ pc = "done"
     /\ StringFields(node)
     /\ ~HasPriorEntry(node)
     /\ ~HasOccurrence(stamps)) =>
        LET fn == node.metadata.file_name
            s  == fn.s
            yy == ToInt(Slice(s, 4, 5))
            mm == ToInt(Slice(s, 6, 7))
            dd == ToInt(Slice(s, 8, 9))
            lpg == fn.tag = "str" /\ IsLpgName(s) /\ ValidYMD(2000 + yy, mm, dd)
        IN  /\ (resolved.tag = "date") <=> lpg
            /\ lpg => resolved.d = Date(2000 + yy, mm, dd, FALSE)

---------------------------------------------------------------------------
(* DatePriorityPostprocessor.postprocess_nodes                             *)

\* sort_key(node): the resolved date, datetime.min when there is none,
\* kept with the node it is the key of.  ok = FALSE when
\* _get_node_creation_date raises.
KeyOf(creation_date, n) ==
    [ok   |-> creation_date.tag # "raise",
     key  |-> IF creation_date.tag = "date" THEN creation_date.d ELSE DatetimeMin,
     item |-> n]

sort_key(n) == KeyOf(get_node_creation_date(n), n)

RECURSIVE Reverse(_)
Reverse(seq) ==
    IF Len(seq) = 0 THEN <<>> ELSE Append(Reverse(Tail(seq)), Head(seq))

\* The items of a list with the key of each: what sorted(key=...) sorts.
\* Every key is computed before the first comparison.
RECURSIVE Decorate(_)
Decorate(ns) ==
    IF Len(ns) = 0 THEN <<>>
    ELSE <<sort_key(Head(ns))>> \o Decorate(Tail(ns))

\* The items of a decorated list.
RECURSIVE Undecorate(_)
Undecorate(ds) ==
    IF Len(ds) = 0 THEN <<>> ELSE <<Head(ds).item>> \o Undecorate(Tail(ds))

\* The insertion step of a sort that puts x before the elements equal to it.
RECURSIVE InsertBeforeEqual(_, _)
InsertBeforeEqual(srt, x) ==
    IF Len(srt) = 0 THEN <<x>>
    ELSE IF ~DateLess(srt[Len(srt)].key, x.key)
         THEN Append(InsertBeforeEqual(SubSeq(srt, 1, Len(srt) - 1), x), srt[Len(srt)])
    ELSE Append(srt, x)

\* x put into the ascending sequence srt behind every element that is not
\* greater than x: the insertion step of a stable sort.
RECURSIVE InsertStable(_, _)
InsertStable(srt, x) ==
    IF Len(srt) = 0 THEN <<x>>
    ELSE IF DateLess(x.key, srt[Len(srt)].key)
         THEN Append(InsertStable(SubSeq(srt, 1, Len(srt) - 1), x), srt[Len(srt)])
    ELSE Append(srt, x)

\* A stable ascending sort of decorated items [key, item].
RECURSIVE SortStable(_)
SortStable(seq) ==
    IF Len(seq) = 0 THEN <<>>
    ELSE InsertStable(SortStable(SubSeq(seq, 1, Len(seq) - 1)), seq[Len(seq)])

\* reverse=True done by sorting ascending and reversing the result.
PySortedReversedAfter(seq, reverse) ==
    IF reverse THEN Reverse(SortStable(seq)) ELSE SortStable(seq)

\* The order sorted(..., reverse=...) gives decorated items: with
\* reverse=True the list is reversed, sorted and reversed again, which
\* keeps equal keys in their original order.
PySorted(seq, reverse) ==
    IF reverse THEN Reverse(SortStable(Reverse(seq))) ELSE SortStable(seq)

\* Comparing an offset-naive with an offset-aware datetime raises
\* TypeError; a sort of two or more keys compares keys of both kinds as
\* soon as both kinds are there.
MixedAwareness(keys) ==
    \E i, j \in 1..Len(keys) : keys[i].key.aware # keys[j].key.aware

\* The call's result: whether it returned, the list it returned, and the
\* argument list as the call leaves it.
Returned(lst, arg) == [outcome |-> "returned", sorted_nodes |-> lst, nodes |-> arg]

Raised(arg) == [outcome |-> "raised", sorted_nodes |-> <<>>, nodes |-> arg]

\* postprocess_nodes sorting its argument in place (nodes.sort) and
\* returning it.
postprocess_nodes_in_place(ns) ==
    LET keys == Decorate(ns)
        lst  == Undecorate(PySorted(keys, TRUE))
    IN  IF \E i \in 1..Len(ns) : ~keys[i].ok THEN Raised(ns)
        ELSE IF MixedAwareness(keys) THEN Raised(ns)
        ELSE IF \E i \in 1..Len(ns) : ns[i].metadata.tag = "none" THEN Raised(lst)
        ELSE Returned(lst, lst)

\* postprocess_nodes(nodes)
postprocess_nodes(ns) ==
    LET keys == Decorate(ns)
        lst  == Undecorate(PySorted(keys, TRUE))
    IN  IF \E i \in 1..Len(ns) : ~keys[i].ok THEN Raised(ns)      \* sort_key raises
        ELSE IF MixedAwareness(keys) THEN Raised(ns)               \* sorted raises
        \* the logging loop: getattr(node.node, 'metadata', {}).get(...)
        ELSE IF \E i \in 1..Len(ns) : ns[i].metadata.tag = "none" THEN Raised(ns)
        ELSE Returned(lst, ns)

---------------------------------------------------------------------------
(* Specification of re-ranking: the retriever hands over any list of       *)
(* candidates, then postprocess_nodes is called on it.                     *)

\* Longest list of candidates.
MaxNodes == 3

NoMarkerText == PyStr(<<"L", "P", "G", " ", "4", "5", "0">>)

\* The candidates the retriever draws from.
NodePool ==
    { Node(1, 95, MetaDict(Absent, PyStr(NameReport)), PyStr(RenderStamps(<<Stamp9999>>))),
      Node(2, 88, MetaDict(Absent, PyStr(NameJun30)), NoMarkerText),
      Node(3, 88, MetaDict(PyDatetime(Date(2025, 6, 30, FALSE)), PyStr(NameJan01)), NoMarkerText),
      Node(4, 80, MetaMissing, NoMarkerText),
      Node(5, 75, MetaDict(PyStr(IsoGarbage), PyStr(NameReport)), PyStr(RenderStamps(<<StampXyz>>))),
      Node(6, 70, MetaDict(PyStr(IsoMin), Absent), NoMarkerText),
      Node(7, 60, MetaDict(PyStr(IsoAware), Absent), NoMarkerText),
      Node(8, 50, MetaNone, NoMarkerText),
      Node(9, 40, MetaDict(Absent, PyInt), NoMarkerText) }

NodeLists == SeqUpTo(NodePool, MaxNodes)

InitRerank ==
    /\ pc = "idle"
    /\ RerankIdle /\ ChatIdle /\ CacheIdle /\ RetryIdle
    /\ stamps = <<>> /\ text = PyNone /\ parsed = ParsedNone
    /\ node = NoNode /\ resolved = ResolvedNone

\* The retriever's candidates for a query, in its order.
Retrieve(ns) ==
    /\ pc = "idle"
    /\ retrieved' = ns
    /\ nodes' = ns
    /\ pc' = "retrieved"
    /\ UNCHANGED <<parse_vars, sorted_nodes, outcome, reranked, chat_vars, cache_vars, retry_vars>>

\* sorted_nodes = postprocess_nodes(nodes)
Postprocess ==
    /\ pc = "retrieved"
    /\ LET r == postprocess_nodes(nodes)
       IN  /\ outcome' = r.outcome
           /\ sorted_nodes' = r.sorted_nodes
           /\ nodes' = r.nodes
    /\ pc' = "done"
    /\ UNCHANGED <<parse_vars, retrieved, reranked, chat_vars, cache_vars, retry_vars>>

\* reranked = postprocess_nodes(sorted_nodes): the postprocessor applied to
\* a list it returned.
PostprocessAgain ==
    /\ pc = "done" /\ outcome = "returned"
    /\ reranked' = postprocess_nodes(sorted_nodes)
    /\ pc' = "again"
    /\ UNCHANGED <<parse_vars, retrieved, nodes, sorted_nodes, outcome, chat_vars, cache_vars, retry_vars>>

NextRerank ==
    \/ \E ns \in NodeLists : Retrieve(ns)
    \/ Postprocess
    \/ PostprocessAgain

SpecRerank == InitRerank /\ [][NextRerank]_vars

---------------------------------------------------------------------------
(* Properties of postprocess_nodes (under SpecRerank)                      *)

\* The resolved creation date of a candidate, None included.
ResolvedDateOf(n) ==
    LET r == get_node_creation_date(n) IN [tag |-> r.tag, d |-> r.d]

IsDated(n) == get_node_creation_date(n).tag = "date"

IsUndated(n) == get_node_creation_date(n).tag = "none"

\* The resolved date with an undated candidate at the minimum date.
DateOrMin(n) == IF IsDated(n) THEN get_node_creation_date(n).d ELSE DatetimeMin

\* C1 as stated: the returned list is in descending order of resolved date,
\* an undated candidate counting as the minimum date, and every dated
\* candidate precedes every undated one.
C1_DescendingDatedFirst ==
    (pc = "done" /\ outcome = "returned") =>
        /\ \A i \in 1..(Len(sorted_nodes) - 1) :
               ~DateLess(DateOrMin(sorted_nodes[i]), DateOrMin(sorted_nodes[i + 1]))
        /\ \A i, j \in 1..Len(sorted_nodes) :
               (IsDated(sorted_nodes[i]) /\ IsUndated(sorted_nodes[j])) => i < j

\* The candidates of seq that resolve to r, in their order in seq.
WithDate(seq, r) ==
    LET Same(n) == ResolvedDateOf(n) = r IN SelectSeq(seq, Same)

\* C2: re-ranking is stable: the candidates that resolve to the same date
\* (or all to no date) stand in the output in the order they have in the
\* input.
C2_Stable ==
    (pc = "done" /\ outcome = "returned") =>
        \A k \in 1..Len(retrieved) :
            WithDate(sorted_nodes, ResolvedDateOf(retrieved[k]))
                = WithDate(retrieved, ResolvedDateOf(retrieved[k]))

\* C2 witness: two undated candidates around a dated one come back behind
\* it, in their input order.
C2_Witness ==
    /\ pc = "done" /\ outcome = "returned"
    /\ \E a, b \in NodePool :
           /\ a.id = 4 /\ b.id = 5
           /\ retrieved = <<a, CHOOSE n \in NodePool : n.id = 2, b>>
           /\ sorted_nodes = <<CHOOSE n \in NodePool : n.id = 2, a, b>>

\* How often x occurs in seq.
Count(seq, x) == Cardinality({i \in 1..Len(seq) : seq[i] = x})

\* C3: the output is a permutation of the input: the same length and the
\* same candidates with the same multiplicity, each with its text, metadata
\* and identity as it was; the input list is still in its original order.
C3_Permutation ==
    (pc = "done" /\ outcome = "returned") =>
        /\ Len(sorted_nodes) = Len(retrieved)
        /\ \A k \in 1..Len(retrieved) :
               Count(sorted_nodes, retrieved[k]) = Count(retrieved, retrieved[k])
        /\ nodes = retrieved

\* C3 witness: a list holding one candidate twice has been reordered.
C3_Witness ==
    /\ pc = "done" /\ outcome = "returned"
    /\ Len(retrieved) = 3
    /\ retrieved[1] = retrieved[3]
    /\ sorted_nodes # retrieved
    /\ nodes = retrieved

\* C4 as stated: postprocess_nodes returns normally for every input list,
\* with each candidate that has no resolvable date sorted last.
C4_NeverRaises ==
    pc = "done" =>
        /\ outcome = "returned"
        /\ \A i, j \in 1..Len(sorted_nodes) :
               (IsUndated(sorted_nodes[i]) /\ i < j) => IsUndated(sorted_nodes[j])


\* A list in newest-first order: dates descending, and no undated candidate
\* before a dated one.
NewestFirst(seq) ==
    /\ \A i \in 1..(Len(seq) - 1) : ~DateLess(DateOrMin(seq[i]), DateOrMin(seq[i + 1]))
    /\ \A i, j \in 1..Len(seq) : (IsDated(seq[i]) /\ IsUndated(seq[j])) => i < j

\* C11: re-ranking a list that is already ordered newest-first returns it in
\* the same order, and re-ranking is idempotent: postprocess_nodes applied
\* to a list it returned returns that list in the same order.
C11_Idempotent ==
    /\ (pc \in {"done", "again"} /\ outcome = "returned" /\ NewestFirst(retrieved))
           => sorted_nodes = retrieved
    /\ pc = "again" =>
           /\ reranked.outcome = "returned"
           /\ reranked.sorted_nodes = sorted_nodes

\* C11 witness: a list of three that the first call reordered, with two
\* candidates of the same date, has been re-ranked a second time.
C11_Witness ==
    /\ pc = "again"
    /\ Len(retrieved) = 3
    /\ sorted_nodes # retrieved
    /\ \E i, j \in 1..3 :
           /\ i < j
           /\ retrieved[i] # retrieved[j]
           /\ ResolvedDateOf(retrieved[i]) = ResolvedDateOf(retrieved[j])
    /\ reranked.sorted_nodes = sorted_nodes


---------------------------------------------------------------------------
(* clean_text: the two implementations of main.py and main_GeminiCloud.py. *)
(* Each re.sub pass scans the text from left to right; where the pattern   *)
(* matches, the replacement is emitted and the scan goes on behind the     *)
(* match, elsewhere the character is copied.  The dash variants U+2212,    *)
(* U+2011, U+2013 and U+2014 are written "MINUS", "NBHYPHEN", "ENDASH" and *)
(* "EMDASH".                                                               *)

\* [a-zA-Z], and [a-z] under re.IGNORECASE
IsLetter(c) == c \in LowerLetters \cup UpperLetters

\* [−‑–—]
DashVariants == {"MINUS", "NBHYPHEN", "ENDASH", "EMDASH"}

\* The index of the first character at or behind i that is no whitespace:
\* where the scan stands after a greedy \s* at i.
SkipSpaces(s, i) == i + SpaceRun(s, i)

\* \b between positions i - 1 and i of s.
WordBoundary(s, i) ==
    LET before == i > 1 /\ i - 1 <= Len(s) /\ IsWord(s[i - 1])
        after  == i >= 1 /\ i <= Len(s) /\ IsWord(s[i])
    IN  before # after

\* re.sub(r'\*+', '', text)
RemoveAsterisks(s) ==
    LET NoAsterisk(c) == c # "*" IN SelectSeq(s, NoAsterisk)

\* match.group(0).replace(' ', '')
RemoveBlanks(s) ==
    LET NoBlank(c) == c # " " IN SelectSeq(s, NoBlank)

\* re.sub(r'[−‑–—]', '-', text)
RECURSIVE NormalizeDashes(_)
NormalizeDashes(s) ==
    IF Len(s) = 0 THEN <<>>
    ELSE <<IF Head(s) \in DashVariants THEN "-" ELSE Head(s)>> \o NormalizeDashes(Tail(s))

\* Where a match of r'/\s*m\s*t\b' (re.IGNORECASE) that starts at i ends
\* (the index behind it); 0 when there is none.
UnitT(s, t) ==
    IF t <= Len(s) /\ ToLower(s[t]) = "t" /\ WordBoundary(s, t + 1) THEN t + 1 ELSE 0

UnitM(s, m) ==
    IF m <= Len(s) /\ ToLower(s[m]) = "m" THEN UnitT(s, SkipSpaces(s, m + 1)) ELSE 0

UnitEnd(s, i) ==
    IF s[i] = "/" THEN UnitM(s, SkipSpaces(s, i + 1)) ELSE 0

\* re.sub(r'/\s*m\s*t\b', '/mt', text, flags=re.IGNORECASE), from index i
RECURSIVE FixUnitFrom(_, _)
FixUnitFrom(s, i) ==
    IF i > Len(s) THEN <<>>
    ELSE IF UnitEnd(s, i) > 0 THEN <<"/", "m", "t">> \o FixUnitFrom(s, UnitEnd(s, i))
    ELSE <<s[i]>> \o FixUnitFrom(s, i + 1)

FixUnit(s) == FixUnitFrom(s, 1)

\* The characters a spaced-out sequence is made of.
InClass(c, cls) == IF cls = "letter" THEN IsLetter(c) ELSE IsDigit(c)

\* The separator a spaced-out sequence may have at i: one blank
\* (sep = "blank") or a run of whitespace (sep = "spaces"); its length.
SepLen(s, i, sep) ==
    IF sep = "blank" THEN (IF i <= Len(s) /\ s[i] = " " THEN 1 ELSE 0)
    ELSE SpaceRun(s, i)

\* The longest sequence elem (sep elem)* that starts at p and ends at a \b,
\* every elem one character of the class: n is the number of its elements
\* and e the index behind it.  The pattern's greedy repetition takes every
\* element there is and gives the last one back when no \b follows it.
RECURSIVE SpacedRun(_, _, _, _)
SpacedRun(s, p, cls, sep) ==
    IF p > Len(s) \/ ~InClass(s[p], cls) THEN [n |-> 0, e |-> p]
    ELSE IF ~WordBoundary(s, p + 1) THEN [n |-> 0, e |-> p]
    ELSE IF SepLen(s, p + 1, sep) = 0 THEN [n |-> 1, e |-> p + 1]
    ELSE LET r == SpacedRun(s, p + 1 + SepLen(s, p + 1, sep), cls, sep)
         IN  IF r.n = 0 THEN [n |-> 1, e |-> p + 1] ELSE [n |-> r.n + 1, e |-> r.e]

\* Where a match of \b elem (sep elem){least - 1,} \b that starts at i ends;
\* 0 when there is none.
SpacedEnd(s, i, cls, sep, least) ==
    IF ~WordBoundary(s, i) THEN 0
    ELSE LET r == SpacedRun(s, i, cls, sep)
         IN  IF r.n >= least THEN r.e ELSE 0

\* re.sub(<spaced-out sequence>, lambda m: m.group(0).replace(' ', ''), text),
\* from index i
RECURSIVE JoinSpacedFrom(_, _, _, _, _)
JoinSpacedFrom(s, i, cls, sep, least) ==
    IF i > Len(s) THEN <<>>
    ELSE LET e == SpacedEnd(s, i, cls, sep, least)
         IN  IF e > 0
             THEN RemoveBlanks(SubSeq(s, i, e - 1)) \o JoinSpacedFrom(s, e, cls, sep, least)
             ELSE <<s[i]>> \o JoinSpacedFrom(s, i + 1, cls, sep, least)

\* r'\b([a-zA-Z]) ((?:[a-zA-Z] ){1,}[a-zA-Z])\b'
JoinSpacedLetters(s) == JoinSpacedFrom(s, 1, "letter", "blank", 3)

\* r'\b(\d) ((?:\d ){0,}\d)\b'
JoinSpacedDigits(s) == JoinSpacedFrom(s, 1, "digit", "blank", 2)

\* max_iterations of fix_all_spaced_text
max_iterations == 10

\* fix_all_spaced_text: both joins, until nothing changes or the
\* iterations are used up.
RECURSIVE FixSpacedLoop(_, _)
FixSpacedLoop(s, left) ==
    IF left = 0 THEN s
    ELSE LET joined == JoinSpacedDigits(JoinSpacedLetters(s))
         IN  IF joined = s THEN s ELSE FixSpacedLoop(joined, left - 1)

fix_all_spaced_text(s) == FixSpacedLoop(s, max_iterations)

\* re.sub(r'(<one of chars>)\s+', r'\1' + rep, text), from index i: the
\* whitespace behind a character of chars becomes rep.
RECURSIVE SpaceAfterFrom(_, _, _, _)
SpaceAfterFrom(s, i, chars, rep) ==
    IF i > Len(s) THEN <<>>
    ELSE IF s[i] \in chars /\ SpaceRun(s, i + 1) > 0
         THEN <<s[i]>> \o rep \o SpaceAfterFrom(s, i + 1 + SpaceRun(s, i + 1), chars, rep)
    ELSE <<s[i]>> \o SpaceAfterFrom(s, i + 1, chars, rep)

SpaceAfter(s, chars, rep) == SpaceAfterFrom(s, 1, chars, rep)

\* re.sub(r'\s+(<one of chars>)', rep + r'\1', text), from index i: the
\* whitespace before a character of chars becomes rep.
RECURSIVE SpaceBeforeFrom(_, _, _, _)
SpaceBeforeFrom(s, i, chars, rep) ==
    IF i > Len(s) THEN <<>>
    ELSE IF /\ IsSpace(s[i])
            /\ SkipSpaces(s, i) <= Len(s)
            /\ s[SkipSpaces(s, i)] \in chars
         THEN rep \o <<s[SkipSpaces(s, i)]>>
                  \o SpaceBeforeFrom(s, SkipSpaces(s, i) + 1, chars, rep)
    ELSE <<s[i]>> \o SpaceBeforeFrom(s, i + 1, chars, rep)

SpaceBefore(s, chars, rep) == SpaceBeforeFrom(s, 1, chars, rep)

\* re.sub(r'(\d)\s+(?=\d)', r'\1', text), from index i: the whitespace
\* between two digits goes.
RECURSIVE JoinDigitsFrom(_, _)
JoinDigitsFrom(s, i) ==
    IF i > Len(s) THEN <<>>
    ELSE IF /\ IsDigit(s[i])
            /\ SpaceRun(s, i + 1) > 0
            /\ SkipSpaces(s, i + 1) <= Len(s)
            /\ IsDigit(s[SkipSpaces(s, i + 1)])
         THEN <<s[i]>> \o JoinDigitsFrom(s, SkipSpaces(s, i + 1))
    ELSE <<s[i]>> \o JoinDigitsFrom(s, i + 1)

JoinDigits(s) == JoinDigitsFrom(s, 1)

\* re.sub(r'\$\s+(\d)', r'$\1', text), from index i
RECURSIVE DollarDigitFrom(_, _)
DollarDigitFrom(s, i) ==
    IF i > Len(s) THEN <<>>
    ELSE IF /\ s[i] = "$"
            /\ SpaceRun(s, i + 1) > 0
            /\ SkipSpaces(s, i + 1) <= Len(s)
            /\ IsDigit(s[SkipSpaces(s, i + 1)])
         THEN <<"$">> \o DollarDigitFrom(s, SkipSpaces(s, i + 1))
    ELSE <<s[i]>> \o DollarDigitFrom(s, i + 1)

DollarDigit(s) == DollarDigitFrom(s, 1)

\* Where a match of U\s*S that starts at i ends (behind the whitespace
\* that follows the S); 0 when there is none.
UsEnd(s, i) ==
    IF s[i] = "U" /\ SkipSpaces(s, i + 1) <= Len(s) /\ s[SkipSpaces(s, i + 1)] = "S"
    THEN SkipSpaces(s, SkipSpaces(s, i + 1) + 1)
    ELSE 0

\* re.sub(r'U\s*S\s*\$', 'US$', text), from index i
RECURSIVE FixUsDollarFrom(_, _)
FixUsDollarFrom(s, i) ==
    IF i > Len(s) THEN <<>>
    ELSE IF UsEnd(s, i) > 0 /\ UsEnd(s, i) <= Len(s) /\ s[UsEnd(s, i)] = "$"
         THEN <<"U", "S", "$">> \o FixUsDollarFrom(s, UsEnd(s, i) + 1)
    ELSE <<s[i]>> \o FixUsDollarFrom(s, i + 1)

FixUsDollar(s) == FixUsDollarFrom(s, 1)

\* Where the optional \$?\s* of r'U\s*S\s*\$?\s*' ends when it starts at k.
OptionalDollarEnd(s, k) ==
    IF k <= Len(s) /\ s[k] = "$" THEN SkipSpaces(s, k + 1) ELSE k

\* re.sub(r'U\s*S\s*\$?\s*', 'US$', text), from index i
RECURSIVE FixUsFrom(_, _)
FixUsFrom(s, i) ==
    IF i > Len(s) THEN <<>>
    ELSE IF UsEnd(s, i) > 0
         THEN <<"U", "S", "$">> \o FixUsFrom(s, OptionalDollarEnd(s, UsEnd(s, i)))
    ELSE <<s[i]>> \o FixUsFrom(s, i + 1)

FixUs(s) == FixUsFrom(s, 1)

\* Where a match of r'(\d+)\s*-\s*(\d+)' that starts at i ends, given the
\* index of its second number; 0 when there is none.
RangeSecond(s, k) == IF DigitRun(s, k) > 0 THEN k + DigitRun(s, k) ELSE 0

RangeHyphen(s, j) ==
    IF j <= Len(s) /\ s[j] = "-" THEN SkipSpaces(s, j + 1) ELSE 0

\* re.sub(r'(\d+)\s*-\s*(\d+)', r'\1-\2', text), from index i
RECURSIVE FixRangeFrom(_, _)
FixRangeFrom(s, i) ==
    IF i > Len(s) THEN <<>>
    ELSE LET first  == DigitRun(s, i)
             second == IF first = 0 THEN 0
                       ELSE RangeHyphen(s, SkipSpaces(s, i + first))
             e      == IF second = 0 THEN 0 ELSE RangeSecond(s, second)
         IN  IF e > 0
             THEN SubSeq(s, i, i + first - 1) \o <<"-">> \o SubSeq(s, second, e - 1)
                      \o FixRangeFrom(s, e)
             ELSE <<s[i]>> \o FixRangeFrom(s, i + 1)

FixRange(s) == FixRangeFrom(s, 1)

\* re.sub(r'\.([A-Z])', r'. \1', text), from index i
RECURSIVE SpaceAfterPeriodFrom(_, _)
SpaceAfterPeriodFrom(s, i) ==
    IF i > Len(s) THEN <<>>
    ELSE IF s[i] = "." /\ i < Len(s) /\ s[i + 1] \in UpperLetters
         THEN <<".", " ">> \o SpaceAfterPeriodFrom(s, i + 1)
    ELSE <<s[i]>> \o SpaceAfterPeriodFrom(s, i + 1)

SpaceAfterPeriod(s) == SpaceAfterPeriodFrom(s, 1)

\* re.sub(r' +', ' ', text), from index i
RECURSIVE CollapseBlanksFrom(_, _)
CollapseBlanksFrom(s, i) ==
    IF i > Len(s) THEN <<>>
    ELSE IF s[i] = " " /\ i < Len(s) /\ s[i + 1] = " " THEN CollapseBlanksFrom(s, i + 1)
    ELSE <<s[i]>> \o CollapseBlanksFrom(s, i + 1)

CollapseBlanks(s) == CollapseBlanksFrom(s, 1)

\* The index of the last "\n" among the whitespace s[i..j]; 0 when it
\* holds none.
RECURSIVE LastNewline(_, _, _)
LastNewline(s, i, j) ==
    IF j < i THEN 0
    ELSE IF s[j] = "\n" THEN j
    ELSE LastNewline(s, i, j - 1)

\* re.sub(r'\n\s*\n+', '\n\n', text), from index i: \s* takes the whole
\* run of whitespace and gives back up to its last newline.
RECURSIVE CollapseBlankLinesFrom(_, _)
CollapseBlankLinesFrom(s, i) ==
    IF i > Len(s) THEN <<>>
    ELSE LET last == IF s[i] = "\n"
                     THEN LastNewline(s, i + 1, i + SpaceRun(s, i + 1))
                     ELSE 0
         IN  IF last > 0 THEN <<"\n", "\n">> \o CollapseBlankLinesFrom(s, last + 1)
             ELSE <<s[i]>> \o CollapseBlankLinesFrom(s, i + 1)

CollapseBlankLines(s) == CollapseBlankLinesFrom(s, 1)

\* The whitespace at the end of s, counted.
RECURSIVE TrailingSpaces(_)
TrailingSpaces(s) ==
    IF Len(s) > 0 /\ IsSpace(s[Len(s)])
    THEN 1 + TrailingSpaces(SubSeq(s, 1, Len(s) - 1))
    ELSE 0

\* text.strip()
Strip(s) == SubSeq(s, 1 + SpaceRun(s, 1), Len(s) - TrailingSpaces(s))

\* The punctuation of the passes.
ClosingPunctuation == {",", ";", ":", ".", "!", "?", ")"}

SentencePunctuation == {",", ";", ":", ".", "!", "?"}

\* What clean_text gives: a str, or the exception it raises.
CleanedStr(chars) == [tag |-> "str", s |-> chars]

CleanRaise == [tag |-> "raise", s |-> <<>>]

\* clean_text of main.py, on a str
clean_text_main(t) ==
    LET t1  == RemoveAsterisks(t)
        t2  == JoinDigits(t1)
        t3  == SpaceAfter(t2, {"/", "$"}, <<>>)
        t4  == SpaceBefore(t3, {"/", "$"}, <<>>)
        t5  == FixUnit(t4)
        t6  == FixUs(t5)
        t7  == DollarDigit(t6)
        t8  == JoinSpacedFrom(t7, 1, "letter", "spaces", 3)
        t9  == CollapseBlanks(t8)
        t10 == CollapseBlankLines(t9)
        t11 == SpaceBefore(t10, ClosingPunctuation, <<>>)
        t12 == SpaceAfter(t11, {"("}, <<>>)
        t13 == SpaceAfter(t12, SentencePunctuation, <<" ">>)
        t14 == FixRange(t13)
    IN  Strip(t14)

\* clean_text of main_GeminiCloud.py, on a str
clean_text_gemini(t) ==
    LET t1  == RemoveAsterisks(t)
        t2  == NormalizeDashes(t1)
        t3  == FixUnit(t2)
        t4  == fix_all_spaced_text(t3)
        t5  == SpaceAfter(t4, {"$"}, <<>>)
        t6  == SpaceBefore(t5, {"$"}, <<" ">>)
        t7  == FixUsDollar(t6)
        t8  == FixRange(t7)
        t9  == SpaceAfterPeriod(t8)
        t10 == CollapseBlanks(t9)
        t11 == CollapseBlankLines(t10)
        t12 == SpaceBefore(t11, ClosingPunctuation, <<>>)
        t13 == SpaceAfter(t12, {"("}, <<>>)
    IN  Strip(t13)

\* clean_text(text) of the implementation im: re.sub raises TypeError on
\* anything that is not a str.
clean_text(im, v) ==
    IF v.tag # "str" THEN CleanRaise
    ELSE IF im = "main" THEN CleanedStr(clean_text_main(v.s))
    ELSE CleanedStr(clean_text_gemini(v.s))

\* f"❌ Error: {str(e)}" for the TypeError of re.sub.  U+274C is written
\* "CROSSMARK", and str(e), a sentence that both implementations leave as
\* it is, "TYPEERROR".
error_msg == <<"CROSSMARK", " ", "E", "r", "r", "o", "r", ":", " ", "TYPEERROR">>

---------------------------------------------------------------------------
(* Specification of the chat page: the answer of the query engine is       *)
(* cleaned and stored in the chat history, and every re-run of the page    *)
(* cleans the stored message again before it shows it.                     *)

\* Longest text drawn from TextAlphabet.
MaxText == 3

TextAlphabet == {"1", " ", "-", "$", "a", "\n"}

ShortTexts == SeqUpTo(TextAlphabet, MaxText)

TenLines == <<"6", "\n", "3", "\n", "9", "\n", "-", "\n", "6", "\n", "4", "\n", "9",
              "\n", "/", "\n", "m", "\n", "t">>

DollarEightyPerMt == <<"$", " ", " ", "8", "0", " ", "/", " ", " ", "m", "t">>

ChainedRange == <<"1", " ", "-", " ", "2", " ", "-", " ", "3">>

\* Answers of the query engine, as texts.
TextPool ==
    { TenLines, DollarEightyPerMt, ChainedRange,
      <<"5", " ", "3">>,
      <<"a", " ", "b">>,
      <<"2", "0", "2", "5", " ", "1", "0">>,
      <<"5", " ", "3", " ", "1">>,
      <<"a", " ", "b", " ", "c">>,
      <<"a", " ", "b", " ", "c", "d">>,
      <<"c", "\n", "a", "\n", "r">>,
      <<"1", " ", " ", "1">>,
      <<"U", "S", " ", "8", "0">>,
      <<"U", "S", " ", "$", " ", "8", "0">>,
      <<"U", "S", "A">>,
      <<"8", "0", " ", "/", " ", "M", " ", "T">>,
      <<"1", "0", " ", "ENDASH", " ", "2", "0">>,
      <<"1", "MINUS", "2">>,
      <<"a", "EMDASH", "b">>,
      <<"a", "NBHYPHEN", "b">>,
      <<"*", "*", "L", "P", "G", "*", "*">>,
      <<"x", ".", "Y">>,
      <<"a", " ", ",", "b">>,
      <<"(", " ", "a", " ", ")">>,
      <<"a", "\n", " ", "\n", "\n", "b">>,
      <<"1", "0", " ", "-", " ", "2", "0">>,
      <<"$", " ", "5">>,
      <<"a", " ", "$", "5">> }

\* response.response: a str, or None.
Responses == {PyNone} \cup {PyStr(t) : t \in TextPool \cup ShortTexts}

Implementations == {"main", "gemini"}

InitChat ==
    /\ pc = "idle"
    /\ impl \in Implementations
    /\ response \in Responses
    /\ cleaned = NotCleaned /\ content = <<>> /\ shown = NotCleaned
    /\ messages = <<>>
    /\ ParseIdle /\ RerankIdle /\ CacheIdle /\ RetryIdle

\* The assistant's turn: response_text = clean_text(response_text), then
\* the message is appended to the history; on an exception the message is
\* error_msg.
Answer ==
    /\ pc = "idle"
    /\ cleaned' = clean_text(impl, response)
    /\ content' = IF cleaned'.tag = "str" THEN cleaned'.s ELSE error_msg
    /\ messages' = messages \o <<[role |-> "user", content |-> PyStr(<<"q">>)],
                                 [role |-> "assistant", content |-> PyStr(content')]>>
    /\ pc' = "answered"
    /\ UNCHANGED <<impl, response, shown, parse_vars, rerank_vars, cache_vars, retry_vars>>

\* A re-run of the page: clean_content = clean_text(message["content"])
Rerender ==
    /\ pc = "answered"
    /\ shown' = clean_text(impl, PyStr(content))
    /\ pc' = "rendered"
    /\ UNCHANGED <<impl, response, cleaned, content, messages, parse_vars, rerank_vars, cache_vars, retry_vars>>

NextChat ==
    \/ Answer
    \/ Rerender

SpecChat == InitChat /\ [][NextChat]_vars


---------------------------------------------------------------------------
(* Properties of clean_text (under SpecChat)                               *)

\* clean_text has been called on the answer.
Answered == pc \in {"answered", "rendered"}

\* C12 as stated: clean_text is idempotent: a message that was cleaned when
\* it was stored is unchanged when the re-run of the page cleans it again.
C12_Idempotent ==
    (pc = "rendered" /\ cleaned.tag = "str") => shown = cleaned

\* C13 as stated: clean_text never raises: None and the empty string give
\* the empty string, every other string gives a string.
C13_NeverRaises ==
    Answered =>
        /\ cleaned.tag = "str"
        /\ (response.tag = "none" \/ response.s = <<>>) => cleaned.s = <<>>

\* A text of three or more lines of one character each.
IsStacked(t) ==
    /\ Len(t) >= 5 /\ Len(t) % 2 = 1
    /\ \A i \in 1..Len(t) : IF i % 2 = 0 THEN t[i] = "\n" ELSE ~IsSpace(t[i])

\* The characters of a text that are no whitespace, in order.
Unspaced(t) == LET Black(c) == ~IsSpace(c) IN SelectSeq(t, Black)

\* C14 as stated: a run of three or more lines of one character each is
\* joined into one token without spaces; the ten lines 6,3,9,-,6,4,9,/,m,t
\* give exactly 639-649/mt.
C14_StackedCollapse ==
    (Answered /\ response.tag = "str" /\ IsStacked(response.s)) =>
        /\ cleaned = CleanedStr(Unspaced(response.s))
        /\ response.s = TenLines =>
               cleaned.s = <<"6", "3", "9", "-", "6", "4", "9", "/", "m", "t">>

\* The whitespace-separated tokens of a text, in order (str.split()).
RECURSIVE TokensFrom(_, _, _)
TokensFrom(t, i, cur) ==
    IF i > Len(t) THEN (IF cur = <<>> THEN <<>> ELSE <<cur>>)
    ELSE IF IsSpace(t[i])
         THEN (IF cur = <<>> THEN <<>> ELSE <<cur>>) \o TokensFrom(t, i + 1, <<>>)
    ELSE TokensFrom(t, i + 1, Append(cur, t[i]))

Tokens(t) == TokensFrom(t, 1, <<>>)

\* A text of letters, digits and blanks whose tokens hold no three single
\* characters in a row.
IsPlainWords(t) ==
    /\ \A i \in 1..Len(t) : t[i] = " " \/ IsLetter(t[i]) \/ IsDigit(t[i])
    /\ LET toks == Tokens(t)
       IN  \A i \in 1..(Len(toks) - 2) :
               ~(Len(toks[i]) = 1 /\ Len(toks[i + 1]) = 1 /\ Len(toks[i + 2]) = 1)

Semantic(t) ==
    LET Keeps(c) == IsLetter(c) \/ IsDigit(c) \/ c = "$" IN SelectSeq(t, Keeps)

\* C16 as stated: the letters, digits and currency symbols of the output
\* are those of the input, in the same order.
C16_KeepsSemanticContent ==
    (Answered /\ response.tag = "str") =>
        /\ cleaned.tag = "str"
        /\ Semantic(cleaned.s) = Semantic(response.s)

\* The index of the nearest character before i that is no whitespace; 0
\* when there is none.
RECURSIVE BlackBefore(_, _)
BlackBefore(t, i) ==
    IF i <= 1 THEN 0
    ELSE IF IsSpace(t[i - 1]) THEN BlackBefore(t, i - 1)
    ELSE i - 1

\* The slash at i is the slash of a /mt unit: m and t follow it, whitespace
\* aside.
IsUnitSlash(t, i) ==
    LET m  == SkipSpaces(t, i + 1)
        tt == SkipSpaces(t, m + 1)
    IN  /\ t[i] = "/"
        /\ m <= Len(t) /\ t[m] \in {"m", "M"}
        /\ tt <= Len(t) /\ t[tt] \in {"t", "T"}
        /\ (tt = Len(t) \/ ~IsWord(t[tt + 1]))

\* The hyphen at i stands between two numbers, whitespace aside.
IsRangeHyphen(t, i) ==
    /\ t[i] = "-"
    /\ BlackBefore(t, i) > 0 /\ IsDigit(t[BlackBefore(t, i)])
    /\ SkipSpaces(t, i + 1) <= Len(t) /\ IsDigit(t[SkipSpaces(t, i + 1)])

\* No whitespace stands at index i of t (an index outside t holds none).
NoSpaceAt(t, i) == (i >= 1 /\ i <= Len(t)) => ~IsSpace(t[i])

\* C17 as stated: in the output no whitespace follows a $, none stands
\* before or behind the slash of a /mt unit, and none stands around the
\* hyphen of a numeric range, chained ranges included; "$  80 /  mt" gives
\* "$80/mt".
C17_NoSpaceInUnitsAndRanges ==
    (Answered /\ response.tag = "str") =>
        /\ cleaned.tag = "str"
        /\ \A i \in 1..Len(cleaned.s) :
               /\ cleaned.s[i] = "$" => NoSpaceAt(cleaned.s, i + 1)
               /\ IsUnitSlash(cleaned.s, i) =>
                      NoSpaceAt(cleaned.s, i - 1) /\ NoSpaceAt(cleaned.s, i + 1)
               /\ IsRangeHyphen(cleaned.s, i) =>
                      NoSpaceAt(cleaned.s, i - 1) /\ NoSpaceAt(cleaned.s, i + 1)
        /\ response.s = DollarEightyPerMt => cleaned.s = <<"$", "8", "0", "/", "m", "t">>

\* t with "-" for each dash variant.
PlainHyphens(t) ==
    [i \in 1..Len(t) |-> IF t[i] \in DashVariants THEN "-" ELSE t[i]]

\* C18 as stated: the output holds no minus sign, non-breaking hyphen, en
\* dash or em dash: each is replaced by "-", and a range written with one is
\* repaired like the range written with "-".
C18_NoDashVariants ==
    (Answered /\ response.tag = "str") =>
        /\ cleaned.tag = "str"
        /\ \A i \in 1..Len(cleaned.s) : cleaned.s[i] \notin DashVariants
        /\ cleaned = clean_text(impl, PyStr(PlainHyphens(response.s)))


---------------------------------------------------------------------------
(* Specification of the cache: the threads call the operations of         *)
(* functions.py in any interleaving.                                       *)

InitCache ==
    /\ pc = "idle"
    /\ CacheIdle
    /\ ParseIdle /\ RerankIdle /\ ChatIdle /\ RetryIdle

\* clear_cache()
clear_cache(t) ==
    /\ tpc[t] = "idle" /\ calls < MaxCalls
    /\ calls' = calls + 1
    /\ cache' = EmptyCache
    /\ invalidations' = invalidations + 1
    /\ built' = NoneBuilt
    /\ ret' = [thread |-> t, op |-> "clear_cache"]
    /\ UNCHANGED <<handles, mutations, tpc, locals, other_vars>>

\* create_query_engine(index, llm, use_cache=uc), up to its first return:
\* the cached engine when there is one, else the call goes on to the index
\* and the LLM it was not given.
create_query_engine(t, uc, index, llm) ==
    /\ tpc[t] = "idle" /\ calls < MaxCalls
    /\ calls' = calls + 1
    /\ IF uc /\ cache.query_engine # NoHandle
       THEN /\ ret' = [thread |-> t, op |-> "create_query_engine",
                         use_cache |-> uc, cached |-> TRUE,
                         arguments |-> <<index, llm>>,
                         muts |-> mutations, inval |-> invalidations,
                         query_engine |-> cache.query_engine]
            /\ UNCHANGED <<tpc, locals>>
       ELSE /\ tpc' = [tpc EXCEPT ![t] = IF index = NoHandle THEN "index"
                                         ELSE IF llm = NoHandle THEN "llm"
                                         ELSE "build"]
            /\ locals' = [locals EXCEPT ![t] = [NoLocals EXCEPT !.use_cache = uc,
                                                               !.index = index,
                                                               !.llm = llm,
                                                               !.muts = mutations,
                                                               !.inval = invalidations]]
            /\ UNCHANGED ret
    /\ UNCHANGED <<cache, handles, built, mutations, invalidations, other_vars>>

\* create_llama_cloud_index(use_cache=uc) called by the application
create_llama_cloud_index(t, uc) ==
    /\ tpc[t] = "idle" /\ calls < MaxCalls
    /\ calls' = calls + 1
    /\ tpc' = [tpc EXCEPT ![t] = "index"]
    /\ locals' = [locals EXCEPT ![t] = [NoLocals EXCEPT !.op = "create_llama_cloud_index",
                                                       !.use_cache = uc,
                                                       !.muts = mutations,
                                                       !.inval = invalidations]]
    /\ UNCHANGED <<cache, handles, built, mutations, invalidations, ret, other_vars>>

\* create_gemini_llm(use_cache=uc) called by the application
create_gemini_llm(t, uc) ==
    /\ tpc[t] = "idle" /\ calls < MaxCalls
    /\ calls' = calls + 1
    /\ tpc' = [tpc EXCEPT ![t] = "llm"]
    /\ locals' = [locals EXCEPT ![t] = [NoLocals EXCEPT !.op = "create_gemini_llm",
                                                       !.use_cache = uc,
                                                       !.muts = mutations,
                                                       !.inval = invalidations]]
    /\ UNCHANGED <<cache, handles, built, mutations, invalidations, ret, other_vars>>

\* use_cache as create_llama_cloud_index and create_gemini_llm see it: the
\* argument of a call by the application, the default True of the call
\* create_query_engine makes.
InnerUseCache(l) == l.op = "create_query_engine" \/ l.use_cache

\* create_llama_cloud_index, up to its first return or to the constructed
\* LlamaCloudIndex.
IndexCheck(t) ==
    /\ tpc[t] = "index"
    /\ IF InnerUseCache(locals[t]) /\ cache.index # NoHandle
       THEN /\ IF locals[t].op = "create_query_engine"
               THEN /\ locals' = [locals EXCEPT ![t].index = cache.index]
                    /\ tpc' = [tpc EXCEPT ![t] = IF locals[t].llm = NoHandle
                                                 THEN "llm" ELSE "build"]
                    /\ UNCHANGED ret
               ELSE /\ ret' = [thread |-> t, op |-> "create_llama_cloud_index",
                                 use_cache |-> TRUE, cached |-> TRUE,
                                 index |-> cache.index]
                    /\ tpc' = [tpc EXCEPT ![t] = "idle"]
                    /\ UNCHANGED locals
            /\ UNCHANGED <<handles, built>>
       ELSE /\ handles' = handles + 1
            /\ built' = IF InnerUseCache(locals[t])
                        THEN [built EXCEPT !.index = @ + 1] ELSE built
            /\ locals' = [locals EXCEPT ![t].index =
                              Handle("index", handles + 1, mutations, invalidations)]
            /\ tpc' = [tpc EXCEPT ![t] = "index_store"]
            /\ UNCHANGED ret
    /\ UNCHANGED <<cache, calls, mutations, invalidations, other_vars>>

\* if use_cache: _cache['index'] = index; return index
IndexStore(t) ==
    /\ tpc[t] = "index_store"
    /\ cache' = IF InnerUseCache(locals[t])
                THEN [cache EXCEPT !.index = locals[t].index] ELSE cache
    /\ IF locals[t].op = "create_query_engine"
       THEN /\ tpc' = [tpc EXCEPT ![t] = IF locals[t].llm = NoHandle
                                         THEN "llm" ELSE "build"]
            /\ UNCHANGED ret
       ELSE /\ ret' = [thread |-> t, op |-> "create_llama_cloud_index",
                         use_cache |-> locals[t].use_cache, cached |-> FALSE,
                         index |-> locals[t].index]
            /\ tpc' = [tpc EXCEPT ![t] = "idle"]
    /\ UNCHANGED <<handles, built, calls, mutations, invalidations, locals, other_vars>>

\* create_gemini_llm, up to its first return or to the constructed Gemini.
LlmCheck(t) ==
    /\ tpc[t] = "llm"
    /\ IF InnerUseCache(locals[t]) /\ cache.llm # NoHandle
       THEN /\ IF locals[t].op = "create_query_engine"
               THEN /\ locals' = [locals EXCEPT ![t].llm = cache.llm]
                    /\ tpc' = [tpc EXCEPT ![t] = "build"]
                    /\ UNCHANGED ret
               ELSE /\ ret' = [thread |-> t, op |-> "create_gemini_llm",
                                 use_cache |-> TRUE, cached |-> TRUE,
                                 llm |-> cache.llm]
                    /\ tpc' = [tpc EXCEPT ![t] = "idle"]
                    /\ UNCHANGED locals
            /\ UNCHANGED <<handles, built>>
       ELSE /\ handles' = handles + 1
            /\ built' = IF InnerUseCache(locals[t])
                        THEN [built EXCEPT !.llm = @ + 1] ELSE built
            /\ locals' = [locals EXCEPT ![t].llm =
                              Handle("llm", handles + 1, mutations, invalidations)]
            /\ tpc' = [tpc EXCEPT ![t] = "llm_store"]
            /\ UNCHANGED ret
    /\ UNCHANGED <<cache, calls, mutations, invalidations, other_vars>>

\* if use_cache: _cache['llm'] = llm; return llm
LlmStore(t) ==
    /\ tpc[t] = "llm_store"
    /\ cache' = IF InnerUseCache(locals[t])
                THEN [cache EXCEPT !.llm = locals[t].llm] ELSE cache
    /\ IF locals[t].op = "create_query_engine"
       THEN /\ tpc' = [tpc EXCEPT ![t] = "build"]
            /\ UNCHANGED ret
       ELSE /\ ret' = [thread |-> t, op |-> "create_gemini_llm",
                         use_cache |-> locals[t].use_cache, cached |-> FALSE,
                         llm |-> locals[t].llm]
            /\ tpc' = [tpc EXCEPT ![t] = "idle"]
    /\ UNCHANGED <<handles, built, calls, mutations, invalidations, locals, other_vars>>

\* query_engine = index.as_query_engine(...)
BuildEngine(t) ==
    /\ tpc[t] = "build"
    /\ handles' = handles + 1
    /\ built' = IF locals[t].use_cache
                THEN [built EXCEPT !.query_engine = @ + 1] ELSE built
    /\ locals' = [locals EXCEPT ![t].query_engine =
                      Handle("query_engine", handles + 1, mutations, invalidations)]
    /\ tpc' = [tpc EXCEPT ![t] = "store"]
    /\ UNCHANGED <<cache, calls, mutations, invalidations, ret, other_vars>>

\* create_query_engine that returns its engine without storing it.
StoreEngineNoStore(t) ==
    /\ tpc[t] = "store"
    /\ ret' = [thread |-> t, op |-> "create_query_engine",
                 use_cache |-> locals[t].use_cache, cached |-> FALSE,
                 muts |-> locals[t].muts, inval |-> locals[t].inval,
                 query_engine |-> locals[t].query_engine]
    /\ tpc' = [tpc EXCEPT ![t] = "idle"]
    /\ UNCHANGED <<cache, handles, built, calls, mutations, invalidations, locals, other_vars>>

\* if use_cache: _cache['query_engine'] = query_engine; return query_engine
StoreEngine(t) ==
    /\ tpc[t] = "store"
    /\ cache' = IF locals[t].use_cache
                THEN [cache EXCEPT !.query_engine = locals[t].query_engine]
                ELSE cache
    /\ ret' = [thread |-> t, op |-> "create_query_engine",
                 use_cache |-> locals[t].use_cache, cached |-> FALSE,
                 muts |-> locals[t].muts, inval |-> locals[t].inval,
                 query_engine |-> locals[t].query_engine]
    /\ tpc' = [tpc EXCEPT ![t] = "idle"]
    /\ UNCHANGED <<handles, built, calls, mutations, invalidations, locals, other_vars>>

\* What a request of delete_document ends in.  Step 1 (DELETE of the file
\* in the pipeline): removed, answered 'already deleted', another failure
\* status, or requests.RequestException.  Step 2 (DELETE of the project
\* file): deleted, 404, another failure status, or the exception.  Step 3
\* (sync_pipeline): success or not.
PipelineOutcomes == {"ok", "already", "fail", "raise"}

FileOutcomes == {"ok", "gone", "fail", "raise"}

SyncOutcomes == {"ok", "fail"}

\* steps_completed after the three steps and the cache clear
StepsCompleted(r1, r2, r3) ==
    (CASE r1 = "ok" -> <<"pipeline">>
       [] r1 = "already" -> <<"pipeline (was already removed)">>
       [] OTHER -> <<>>)
    \o (CASE r2 = "ok" -> <<"project file">>
          [] r2 = "gone" -> <<"project file (was already gone)">>
          [] OTHER -> <<>>)
    \o (IF r3 = "ok" THEN <<"pipeline sync">> ELSE <<>>)
    \o <<"cache cleared">>

\* 'pipeline' in s, for the strings steps_completed may hold
InPipeline(s) ==
    s \in {"pipeline", "pipeline (was already removed)", "pipeline sync"}

\* 'project file' in s
InProjectFile(s) == s \in {"project file", "project file (was already gone)"}

\* The result dict of delete_document for the steps completed, with the
\* requests the run has sent.
DeleteResult(t, steps) ==
    LET pipeline_ok == \E i \in 1..Len(steps) : InPipeline(steps[i])
        file_ok     == \E i \in 1..Len(steps) : InProjectFile(steps[i])
    IN  [thread |-> t, op |-> "delete_document", raised |-> FALSE,
         success |-> pipeline_ok \/ file_ok,
         message |-> IF pipeline_ok /\ file_ok THEN "Successfully deleted"
                     ELSE IF pipeline_ok \/ file_ok THEN "Partially deleted"
                     ELSE "Failed to delete",
         steps |-> steps,
         requests |-> <<"pipeline", "project file", "sync">>]

\* A delete_document that sends the pipeline request before its checks.
DeleteFailureAfterRequest(t, has_file_id, has_credentials, r1) ==
    [thread |-> t, op |-> "delete_document",
     raised |-> ~has_file_id \/ ~has_credentials,
     success |-> FALSE,
     message |-> IF ~has_file_id \/ ~has_credentials THEN "ValueError"
                 ELSE "Network error",
     steps |-> <<>>,
     requests |-> IF r1 = "raise" THEN <<"pipeline">>
                  ELSE <<"pipeline", "project file">>]

\* What delete_document gives when it does not reach the cache clear: the
\* ValueError of a missing file id or credential, raised before the first
\* request, or the result made from a RequestException of step 1 or 2.
DeleteFailure(t, has_file_id, has_credentials, r1) ==
    [thread |-> t, op |-> "delete_document",
     raised |-> ~has_file_id \/ ~has_credentials,
     success |-> FALSE,
     message |-> IF ~has_file_id \/ ~has_credentials THEN "ValueError"
                 ELSE "Network error",
     steps |-> <<>>,
     requests |-> IF ~has_file_id \/ ~has_credentials THEN <<>>
                  ELSE IF r1 = "raise" THEN <<"pipeline">>
                  ELSE <<"pipeline", "project file">>]

\* delete_document(file_id, file_name) behind retry_with_backoff: the body
\* catches every RequestException itself and ValueError is not retryable,
\* so the wrapper makes one attempt.
delete_document(t, has_file_id, has_credentials, r1, r2, r3) ==
    /\ tpc[t] = "idle" /\ calls < MaxCalls
    /\ calls' = calls + 1
    /\ IF ~has_file_id \/ ~has_credentials \/ r1 = "raise" \/ r2 = "raise"
       THEN /\ ret' = DeleteFailure(t, has_file_id, has_credentials, r1)
            /\ UNCHANGED <<cache, built, mutations, invalidations>>
       ELSE /\ cache' = [cache EXCEPT !.query_engine = NoHandle]
            /\ invalidations' = invalidations + 1
            /\ built' = [built EXCEPT !.query_engine = 0]
            /\ ret' = DeleteResult(t, StepsCompleted(r1, r2, r3))
            /\ mutations' = IF DeleteResult(t, StepsCompleted(r1, r2, r3)).success
                            THEN mutations + 1 ELSE mutations
    /\ UNCHANGED <<handles, tpc, locals, other_vars>>

\* upload_file_to_index(file_path): the checks before the try raise; the
\* upload made with an index of its own succeeds or its exception becomes
\* the failure result.
upload_file_to_index(t, has_path, exists, has_credentials, uploaded) ==
    /\ tpc[t] = "idle" /\ calls < MaxCalls
    /\ calls' = calls + 1
    /\ ret' = [thread |-> t, op |-> "upload_file_to_index",
               raised |-> ~has_path \/ ~exists \/ ~has_credentials,
               success |-> has_path /\ exists /\ has_credentials /\ uploaded]
    /\ mutations' = IF has_path /\ exists /\ has_credentials /\ uploaded
                    THEN mutations + 1 ELSE mutations
    /\ UNCHANGED <<cache, handles, built, invalidations, tpc, locals, other_vars>>

\* The names of the files a batch may hold.
FileNames == {"a.pdf", "b.pdf"}

\* The orders in which n uploads may complete.
CompletionOrders(n) ==
    {p \in [1..n -> 1..n] : \A i, j \in 1..n : p[i] = p[j] => i = j}

\* An upload_files_batch that puts the newest message first.
RECURSIVE BatchResultNewestFirst(_, _, _, _)
BatchResultNewestFirst(files, uploaded, order, k) ==
    IF k = 0 THEN [success_files |-> <<>>, failed_files |-> <<>>, errors |-> <<>>]
    ELSE LET r == BatchResultNewestFirst(files, uploaded, order, k - 1)
             f == files[order[k]]
         IN  IF uploaded[order[k]]
             THEN [r EXCEPT !.success_files = Append(r.success_files, f)]
             ELSE [r EXCEPT !.failed_files = Append(r.failed_files, f),
                            !.errors = <<<<"Error uploading", f, order[k]>>>>
                                       \o r.errors]

\* The three result lists of upload_files_batch after the futures
\* order[1..k] have completed; the message of a failed upload names the
\* file and holds the text of its exception, which differs from one upload
\* to the other.
RECURSIVE BatchResult(_, _, _, _)
BatchResult(files, uploaded, order, k) ==
    IF k = 0 THEN [success_files |-> <<>>, failed_files |-> <<>>, errors |-> <<>>]
    ELSE LET r == BatchResult(files, uploaded, order, k - 1)
             f == files[order[k]]
         IN  IF uploaded[order[k]]
             THEN [r EXCEPT !.success_files = Append(r.success_files, f)]
             ELSE [r EXCEPT !.failed_files = Append(r.failed_files, f),
                            !.errors = Append(r.errors,
                                              <<"Error uploading", f, order[k]>>)]

\* upload_files_batch(uploaded_files)
upload_files_batch(t, files, uploaded, order) ==
    /\ tpc[t] = "idle" /\ calls < MaxCalls
    /\ calls' = calls + 1
    /\ LET r == BatchResult(files, uploaded, order, Len(files))
       IN  /\ ret' = [thread |-> t, op |-> "upload_files_batch",
                        files |-> files, uploaded |-> uploaded,
                        success_files |-> r.success_files,
                        failed_files |-> r.failed_files,
                        errors |-> r.errors]
           /\ mutations' = IF r.success_files # <<>> THEN mutations + 1 ELSE mutations
    /\ UNCHANGED <<cache, handles, built, invalidations, tpc, locals, other_vars>>

\* The deletions the threads make: one that succeeds, one whose requests
\* all fail, one whose request raises, one without file id.
CacheDeletions ==
    { <<TRUE, TRUE, "ok", "ok", "ok">>,
      <<TRUE, TRUE, "fail", "fail", "fail">>,
      <<TRUE, TRUE, "raise", "ok", "ok">>,
      <<FALSE, TRUE, "ok", "ok", "ok">> }

\* The batch the threads upload: MaxFiles files.
CacheBatch == [i \in 1..MaxFiles |-> IF i % 2 = 1 THEN "a.pdf" ELSE "b.pdf"]

NextCache ==
    \E t \in Threads :
           \/ clear_cache(t)
           \/ \E uc \in BOOLEAN : create_query_engine(t, uc, NoHandle, NoHandle)
           \/ IndexCheck(t)
           \/ IndexStore(t)
           \/ LlmCheck(t)
           \/ LlmStore(t)
           \/ BuildEngine(t)
           \/ StoreEngine(t)
           \/ \E d \in CacheDeletions :
                  delete_document(t, d[1], d[2], d[3], d[4], d[5])
           \/ \E has_path, exists, has_credentials, uploaded \in BOOLEAN :
                  upload_file_to_index(t, has_path, exists, has_credentials, uploaded)
           \/ \E uploaded \in [1..MaxFiles -> BOOLEAN] :
                  upload_files_batch(t, CacheBatch, uploaded, [i \in 1..MaxFiles |-> i])

SpecCache == InitCache /\ [][NextCache]_vars

---------------------------------------------------------------------------
(* Specification of the cache with one caller at a time: thread 1 makes    *)
(* every call that reads or writes _cache, with every argument and every   *)
(* outcome of its requests.                                                *)

\* The index and the LLM a caller may hand to create_query_engine: none,
\* or an object of its own.
IndexArguments == {NoHandle, Handle("index", 0, 0, 0)}

LlmArguments == {NoHandle, Handle("llm", 0, 0, 0)}

NextSequential ==
    \/ clear_cache(1)
    \/ \E uc \in BOOLEAN, index \in IndexArguments, llm \in LlmArguments :
           create_query_engine(1, uc, index, llm)
    \/ \E uc \in BOOLEAN : create_llama_cloud_index(1, uc)
    \/ \E uc \in BOOLEAN : create_gemini_llm(1, uc)
    \/ IndexCheck(1)
    \/ IndexStore(1)
    \/ LlmCheck(1)
    \/ LlmStore(1)
    \/ BuildEngine(1)
    \/ StoreEngine(1)
    \/ \E has_file_id, has_credentials \in BOOLEAN :
           \E r1 \in PipelineOutcomes, r2 \in FileOutcomes, r3 \in SyncOutcomes :
               delete_document(1, has_file_id, has_credentials, r1, r2, r3)

SpecSequential == InitCache /\ [][NextSequential]_vars

---------------------------------------------------------------------------
(* Specification of the batch upload: thread 1 uploads every list of      *)
(* files, with every outcome of each upload and every order in which the  *)
(* uploads complete.                                                       *)

\* The lists of at most MaxFiles files.
Batches == UNION {[1..n -> FileNames] : n \in 0..MaxFiles}

NextBatch ==
    \E files \in Batches :
        \E uploaded \in [1..Len(files) -> BOOLEAN] :
            \E order \in CompletionOrders(Len(files)) :
                upload_files_batch(1, files, uploaded, order)

SpecBatch == InitCache /\ [][NextBatch]_vars

---------------------------------------------------------------------------
(* Properties of the cache (under SpecCache)                               *)

\* The handles _cache holds.
Cached == {cache.index, cache.llm, cache.query_engine} \ {NoHandle}

\* No call is under way.
Quiescent == \A t \in Threads : tpc[t] = "idle"

\* C19 as stated: after every successful delete_document,
\* upload_file_to_index or upload_files_batch call has returned, _cache
\* holds no index, LLM or query engine handle created before that call, and
\* the next create_query_engine call builds a fresh engine.
C19_InvalidatedAfterMutation ==
    /\ Quiescent => \A h \in Cached : h.muts = mutations
    /\ ret.op = "create_query_engine" => ret.query_engine.muts >= ret.muts

\* C20 as stated: once an invalidation (delete_document, clear_cache) has
\* completed, _cache never holds a query engine whose construction started
\* before it, and no call made after it is handed one.
C20_NoStaleEngineAfterInvalidation ==
    /\ cache.query_engine # NoHandle => cache.query_engine.inval = invalidations
    /\ ret.op = "create_query_engine" => ret.query_engine.inval >= ret.inval

---------------------------------------------------------------------------
(* Properties of the cache with one caller at a time (under               *)
(* SpecSequential)                                                         *)

\* What a create_* call returned, when ret is the return of one.
HandleOf(r) ==
    CASE r.op = "create_query_engine" -> r.query_engine
      [] r.op = "create_llama_cloud_index" -> r.index
      [] r.op = "create_gemini_llm" -> r.llm
      [] OTHER -> NoHandle

\* What the slot a create_* call reads and writes holds in the cache c.
SlotOf(c, r) ==
    CASE r.op = "create_query_engine" -> c.query_engine
      [] r.op = "create_llama_cloud_index" -> c.index
      [] r.op = "create_gemini_llm" -> c.llm
      [] OTHER -> NoHandle

\* C21: with use_cache=True and one caller at a time, between two
\* invalidations of a slot the index, the LLM and the query engine are each
\* constructed at most once; a create_* call returns the object its slot of
\* _cache holds, and the object in a slot is replaced only after the slot
\* was cleared, so every call after the first returns the identical object,
\* whatever arguments it passes.
C21_ConstructedOnceAndReused ==
    [][/\ built'.index <= 1 /\ built'.llm <= 1 /\ built'.query_engine <= 1
       /\ (HandleOf(ret') # NoHandle /\ ret'.use_cache) => HandleOf(ret') = SlotOf(cache', ret')
       /\ \A k \in {"index", "llm", "query_engine"} :
              (cache[k] # NoHandle /\ cache'[k] # NoHandle) => cache'[k] = cache[k]]_vars

\* A call with an index and an LLM of the caller's own was handed the
\* engine an earlier call built and cached.
C21_Witness ==
    /\ ret.op = "create_query_engine" /\ ret.use_cache /\ ret.cached
    /\ ret.arguments = <<Handle("index", 0, 0, 0), Handle("llm", 0, 0, 0)>>
    /\ built = [index |-> 1, llm |-> 1, query_engine |-> 1]
    /\ invalidations > 0

\* The steps of steps_completed that are a deletion.
DeletionSteps ==
    {"pipeline", "pipeline (was already removed)",
     "project file", "project file (was already gone)"}

\* C23 as stated: delete_document returns success=True only if the pipeline
\* removal (step 1) or the project-file deletion (step 2) succeeded or found
\* the file already gone; when both failed it returns success=False,
\* whatever the pipeline sync did.
C23_FailedDeletionNotSuccess ==
    (ret.op = "delete_document" /\ ret.success) =>
        \E i \in 1..Len(ret.steps) : ret.steps[i] \in DeletionSteps

\* C26: delete_document sends its requests in the order pipeline removal,
\* project-file deletion, pipeline sync; when no request raised all three
\* were sent, whatever status the deletions returned, and the cached query
\* engine is cleared, the other slots being left alone; with an empty file
\* id or missing credentials it raises ValueError with no request sent and
\* _cache as it was.
C26_StepsInOrder ==
    [][(calls' # calls /\ ret'.op = "delete_document") =>
           /\ ret'.requests \in {<<>>, <<"pipeline">>, <<"pipeline", "project file">>,
                                 <<"pipeline", "project file", "sync">>}
           /\ ret'.raised =>
                  /\ ret'.message = "ValueError"
                  /\ ret'.requests = <<>>
                  /\ cache' = cache
           /\ (~ret'.raised /\ ret'.message # "Network error") =>
                  /\ ret'.requests = <<"pipeline", "project file", "sync">>
                  /\ ret'.steps[Len(ret'.steps)] = "cache cleared"
                  /\ cache' = [cache EXCEPT !.query_engine = NoHandle]]_vars

\* Both deletions and the sync returned a failure status, while an index,
\* an LLM and a query engine were cached: the three requests were sent and
\* the engine is gone.
C26_Witness ==
    /\ ret.op = "delete_document" /\ ~ret.raised
    /\ ret.steps = <<"cache cleared">>
    /\ ret.requests = <<"pipeline", "project file", "sync">>
    /\ cache.index # NoHandle /\ cache.llm # NoHandle
    /\ cache.query_engine = NoHandle /\ built = [index |-> 1, llm |-> 1, query_engine |-> 0]

\* C27 as stated: a call made with use_cache=False neither reads nor
\* updates _cache: while it runs the three slots stay as they were, and the
\* index and the LLM it uses are new instances, not the cached ones, also
\* when create_query_engine is given no index and no llm.
C27_UseCacheFalseLeavesCache ==
    [][(tpc[1] # "idle" /\ ~locals[1].use_cache) =>
           /\ cache' = cache
           /\ (tpc[1] = "index" /\ cache.index # NoHandle) =>
                  locals'[1].index # cache.index
           /\ (tpc[1] = "llm" /\ cache.llm # NoHandle) =>
                  locals'[1].llm # cache.llm]_vars

---------------------------------------------------------------------------
(* Properties of the batch upload (under SpecBatch)                        *)

\* C29 as stated: each input file's name appears exactly once in exactly
\* one of success_files and failed_files, len(errors) == len(failed_files),
\* and errors[i] is the message of the upload that put failed_files[i] in
\* the list, for every list of files and every completion order.
C29_EachNameOnce ==
    ret.op = "upload_files_batch" =>
        /\ \A i \in 1..Len(ret.files) :
               Count(ret.success_files \o ret.failed_files, ret.files[i]) = 1
        /\ Len(ret.errors) = Len(ret.failed_files)
        /\ \A j \in 1..Len(ret.failed_files) :
               /\ ret.errors[j][2] = ret.failed_files[j]
               /\ ~ret.uploaded[ret.errors[j][3]]

\* C29 amended: each input file has exactly one entry: a name appears in
\* success_files as often as files of that name were uploaded and in
\* failed_files as often as files of that name failed;
\* len(errors) == len(failed_files), errors[i] is the message of the upload
\* that put failed_files[i] in the list, and no upload has two messages.
C29_EachFileOnce ==
    ret.op = "upload_files_batch" =>
        /\ \A n \in FileNames :
               /\ Count(ret.success_files, n) =
                      Cardinality({i \in 1..Len(ret.files) :
                                       ret.files[i] = n /\ ret.uploaded[i]})
               /\ Count(ret.failed_files, n) =
                      Cardinality({i \in 1..Len(ret.files) :
                                       ret.files[i] = n /\ ~ret.uploaded[i]})
        /\ Len(ret.errors) = Len(ret.failed_files)
        /\ \A j \in 1..Len(ret.failed_files) :
               /\ ret.errors[j][2] = ret.failed_files[j]
               /\ ret.files[ret.errors[j][3]] = ret.failed_files[j]
               /\ ~ret.uploaded[ret.errors[j][3]]
        /\ \A j, k \in 1..Len(ret.errors) :
               ret.errors[j][3] = ret.errors[k][3] => j = k

\* Two files of different names failed, the second before the first.
C29_Witness ==
    /\ ret.op = "upload_files_batch"
    /\ Len(ret.failed_files) = 2 /\ ret.failed_files[1] # ret.failed_files[2]
    /\ ret.errors[1][3] = 2 /\ ret.errors[2][3] = 1

---------------------------------------------------------------------------
(* retry_with_backoff of functions.py and the functions it decorates.  A   *)
(* step is one attempt of the wrapper: the call of the wrapped function,   *)
(* the except clause and the sleep that follows.                           *)

\* Retries of the wrapper of a function of the caller's own, at most.
MaxRetries == 3

\* A decorator that retries every exception.
DecoratorRetriesAll ==
    [max_retries |-> 3, base_delay |-> 1, backoff_factor |-> 2,
     retryable_exceptions |-> {"RequestException", "Exception", "ValueError"}]

\* @retry_with_backoff(max_retries=3, base_delay=1.0, backoff_factor=2.0),
\* with the default retryable_exceptions.
Decorator ==
    [max_retries |-> 3, base_delay |-> 1, backoff_factor |-> 2,
     retryable_exceptions |-> {"RequestException"}]

\* What a call of a wrapped function ends in: the value it returns or the
\* exception it raises, with the number of HTTP requests it has sent.
Return(value, requests) ==
    [kind |-> "return", value |-> value, exception |-> "none", requests |-> requests]

Raise(exception, requests) ==
    [kind |-> "raise", value |-> <<>>, exception |-> exception, requests |-> requests]

\* [{'name': 'current.pdf', 'id': None}]
Fallback == <<[name |-> "current.pdf", id |-> "None"]>>

\* What the GET of fetch_uploaded_documents ends in: 200 with files, 200
\* with no file, 200 with a body that is no dict, another status, or
\* requests.RequestException.
FetchResponses == {"files", "no files", "unexpected", "status", "network"}

\* The body of fetch_uploaded_documents
fetch_uploaded_documents(has_credentials, got) ==
    IF ~has_credentials THEN Return(Fallback, 0)
    ELSE CASE got = "files" -> Return(<<[name |-> "a.pdf", id |-> "f1"]>>, 1)
           [] got = "no files" -> Return(<<>>, 1)
           [] got = "unexpected" -> Raise("Exception", 1)
           [] OTHER -> Raise("RequestException", 1)

\* The body of delete_document; the result dict is held in a list of one.
DeleteBody(has_file_id, has_credentials, r1, r2, r3) ==
    IF ~has_file_id \/ ~has_credentials THEN Raise("ValueError", 0)
    ELSE IF r1 = "raise" \/ r2 = "raise"
    THEN Return(<<DeleteFailure(0, TRUE, TRUE, r1)>>,
                Len(DeleteFailure(0, TRUE, TRUE, r1).requests))
    ELSE Return(<<DeleteResult(0, StepsCompleted(r1, r2, r3))>>, 3)

\* The decorated functions: the two of functions.py and one of the caller.
WrappedFunctions == {"fetch_uploaded_documents", "delete_document", "func"}

\* What one call of the wrapped function may end in.
Outcomes(func) ==
    CASE func = "fetch_uploaded_documents" ->
             {fetch_uploaded_documents(c, r) : c \in BOOLEAN, r \in FetchResponses}
      [] func = "delete_document" ->
             {DeleteBody(a, b, r1, r2, r3) :
                  a \in BOOLEAN, b \in BOOLEAN, r1 \in PipelineOutcomes,
                  r2 \in FileOutcomes, r3 \in SyncOutcomes}
      [] OTHER -> {Return(<<[name |-> "value"]>>, 0), Raise("RequestException", 0),
                   Raise("ValueError", 0)}

\* backoff_factor ** attempt
RECURSIVE Power(_, _)
Power(b, e) == IF e = 0 THEN 1 ELSE b * Power(b, e - 1)

\* One entry of the history: a call of the wrapped function with what it
\* ended in, or a time.sleep(delay).
CallEvent(attempt, o) ==
    [event |-> "call", attempt |-> attempt, outcome |-> o, delay |-> 0]

SleepEvent(attempt, delay) ==
    [event |-> "sleep", attempt |-> attempt, outcome |-> Return(<<>>, 0), delay |-> delay]

InitRetry ==
    /\ pc = "idle"
    /\ RetryIdle
    /\ ParseIdle /\ RerankIdle /\ ChatIdle /\ CacheIdle

\* wrapper(*args, **kwargs) of the function func decorated with d:
\* last_exception = None, and the loop starts with attempt 0.
Call(func, d) ==
    /\ pc = "idle"
    /\ wrapper' = [func |-> func, max_retries |-> d.max_retries,
                   base_delay |-> d.base_delay,
                   backoff_factor |-> d.backoff_factor,
                   retryable_exceptions |-> d.retryable_exceptions,
                   attempt |-> 0,
                   last_exception |-> [exception |-> "none", attempt |-> 0]]
    /\ pc' = "try"
    /\ UNCHANGED <<history, result, parse_vars, rerank_vars, chat_vars, cache_vars>>

\* A wrapper that sleeps after its last attempt as well.
AttemptSleepsAlways(o) ==
    /\ pc = "try" /\ o \in Outcomes(wrapper.func)
    /\ IF o.kind = "return"
       THEN /\ history' = Append(history, CallEvent(wrapper.attempt, o))
            /\ result' = [kind |-> "returned", attempt |-> wrapper.attempt,
                          value |-> o.value, exception |-> "none"]
            /\ pc' = "done"
            /\ UNCHANGED wrapper
       ELSE IF o.exception \notin wrapper.retryable_exceptions
       THEN /\ history' = Append(history, CallEvent(wrapper.attempt, o))
            /\ result' = [kind |-> "raised", attempt |-> wrapper.attempt,
                          value |-> <<>>, exception |-> o.exception]
            /\ pc' = "done"
            /\ UNCHANGED wrapper
       ELSE /\ history' = history \o
                    <<CallEvent(wrapper.attempt, o),
                      SleepEvent(wrapper.attempt,
                                 wrapper.base_delay *
                                     Power(wrapper.backoff_factor, wrapper.attempt))>>
            /\ wrapper' = [wrapper EXCEPT
                               !.attempt = @ + 1,
                               !.last_exception = [exception |-> o.exception,
                                                   attempt |-> wrapper.attempt]]
            /\ IF wrapper.attempt < wrapper.max_retries
               THEN UNCHANGED <<pc, result>>
               ELSE /\ result' = [kind |-> "raised", attempt |-> wrapper.attempt,
                                  value |-> <<>>, exception |-> o.exception]
                    /\ pc' = "done"
    /\ UNCHANGED <<parse_vars, rerank_vars, chat_vars, cache_vars>>

\* One pass of the loop of the wrapper, the wrapped function ending in o:
\* its value is returned; an exception that is not retryable propagates; a
\* retryable one is kept in last_exception and, before the last attempt, is
\* followed by the sleep; after the last attempt the loop ends and
\* last_exception is raised.
Attempt(o) ==
    /\ pc = "try" /\ o \in Outcomes(wrapper.func)
    /\ IF o.kind = "return"
       THEN /\ history' = Append(history, CallEvent(wrapper.attempt, o))
            /\ result' = [kind |-> "returned", attempt |-> wrapper.attempt,
                          value |-> o.value, exception |-> "none"]
            /\ pc' = "done"
            /\ UNCHANGED wrapper
       ELSE IF o.exception \notin wrapper.retryable_exceptions
       THEN /\ history' = Append(history, CallEvent(wrapper.attempt, o))
            /\ result' = [kind |-> "raised", attempt |-> wrapper.attempt,
                          value |-> <<>>, exception |-> o.exception]
            /\ pc' = "done"
            /\ UNCHANGED wrapper
       ELSE IF wrapper.attempt < wrapper.max_retries
       THEN /\ history' = history \o
                    <<CallEvent(wrapper.attempt, o),
                      SleepEvent(wrapper.attempt,
                                 wrapper.base_delay *
                                     Power(wrapper.backoff_factor, wrapper.attempt))>>
            /\ wrapper' = [wrapper EXCEPT
                               !.attempt = @ + 1,
                               !.last_exception = [exception |-> o.exception,
                                                   attempt |-> wrapper.attempt]]
            /\ UNCHANGED <<pc, result>>
       ELSE /\ history' = Append(history, CallEvent(wrapper.attempt, o))
            /\ wrapper' = [wrapper EXCEPT
                               !.last_exception = [exception |-> o.exception,
                                                   attempt |-> wrapper.attempt]]
            /\ result' = [kind |-> "raised", attempt |-> wrapper.attempt,
                          value |-> <<>>, exception |-> o.exception]
            /\ pc' = "done"
    /\ UNCHANGED <<parse_vars, rerank_vars, chat_vars, cache_vars>>

\* The decorators a caller puts on a function of its own.
Decorators ==
    [max_retries : 0..MaxRetries, base_delay : {1, 3}, backoff_factor : {2, 3},
     retryable_exceptions : {{"RequestException"}, {"ValueError"}}]

NextRetry ==
    \/ \E d \in Decorators : Call("func", d)
    \/ \E func \in WrappedFunctions \ {"func"} : Call(func, Decorator)
    \/ \E func \in WrappedFunctions : \E o \in Outcomes(func) : Attempt(o)

SpecRetry == InitRetry /\ [][NextRetry]_vars

---------------------------------------------------------------------------
(* Properties of retry_with_backoff and of the functions it decorates      *)
(* (under SpecRetry)                                                       *)

\* The calls of the wrapped function the wrapper has made, in order.
CallsMade == LET IsCall(e) == e.event = "call" IN SelectSeq(history, IsCall)

\* The delays of the sleeps the wrapper has made, in order.
Delays ==
    LET IsSleep(e) == e.event = "sleep"
        sleeps == SelectSeq(history, IsSleep)
    IN  [i \in 1..Len(sleeps) |-> sleeps[i].delay]

\* The entry e is a call that raised an exception the wrapper retries.
FailedRetryable(e) ==
    /\ e.event = "call" /\ e.outcome.kind = "raise"
    /\ e.outcome.exception \in wrapper.retryable_exceptions

\* The wrapper has raised the exception of the call e to its caller.
Propagated(e) ==
    /\ pc = "done"
    /\ result = [kind |-> "raised", attempt |-> e.attempt, value |-> <<>>,
                 exception |-> e.outcome.exception]

\* C24: a function wrapped by retry_with_backoff(max_retries=n) is called
\* at most n+1 times; the value of the first call that does not raise is
\* returned and no call follows it; when all n+1 calls raise a retryable
\* exception the exception of the last one is raised; after failed call k
\* (k = 0..n-1) the wrapper sleeps base_delay*backoff_factor^k, and it does
\* not sleep after the last failed call.
C24_AtMostNPlusOneCalls ==
    wrapper.func # "none" =>
        /\ Len(CallsMade) <= wrapper.max_retries + 1
        /\ \A i \in 1..Len(CallsMade) : CallsMade[i].attempt = i - 1
        /\ \A i \in 1..Len(history) :
               /\ (history[i].event = "call" /\ i < Len(history)) =>
                      FailedRetryable(history[i])
               /\ (history[i].event = "call" /\ history[i].outcome.kind = "return") =>
                      /\ pc = "done"
                      /\ result = [kind |-> "returned", attempt |-> history[i].attempt,
                                   value |-> history[i].outcome.value,
                                   exception |-> "none"]
               /\ (FailedRetryable(history[i])
                       /\ history[i].attempt = wrapper.max_retries) =>
                      /\ i = Len(history)
                      /\ Propagated(history[i])
               /\ (FailedRetryable(history[i])
                       /\ history[i].attempt < wrapper.max_retries) =>
                      /\ i < Len(history)
                      /\ history[i + 1].event = "sleep"
                      /\ history[i + 1].delay =
                             wrapper.base_delay *
                                 Power(wrapper.backoff_factor, history[i].attempt)
               /\ history[i].event = "sleep" =>
                      /\ i > 1
                      /\ FailedRetryable(history[i - 1])
                      /\ history[i - 1].attempt < wrapper.max_retries
        /\ result.kind = "returned" =>
               /\ history # <<>>
               /\ history[Len(history)].event = "call"
               /\ history[Len(history)].outcome.kind = "return"

\* Four calls of a function decorated with max_retries=3, base_delay=3 and
\* backoff_factor=3 raised the retryable exception: the wrapper slept 3, 9
\* and 27 seconds and raised the exception of the fourth call.
C24_Witness ==
    /\ wrapper.func = "func" /\ wrapper.max_retries = 3
    /\ wrapper.base_delay = 3 /\ wrapper.backoff_factor = 3
    /\ pc = "done" /\ result.kind = "raised" /\ result.attempt = 3
    /\ Len(CallsMade) = 4
    /\ Delays = <<3, 9, 27>>

\* The last call fetch_uploaded_documents made did not end in a 200
\* response: it raised, or it found the credentials missing.
FetchFailed ==
    /\ wrapper.func = "fetch_uploaded_documents" /\ pc = "done"
    /\ \/ history[Len(history)].outcome.kind = "raise"
       \/ history[Len(history)].outcome.requests = 0

\* C22 as stated: when every attempt of fetch_uploaded_documents fails or
\* the credentials are missing, the caller receives an empty list: no
\* exception and no made-up document entry.
C22_EmptyListOnTotalFailure ==
    FetchFailed =>
        result = [kind |-> "returned", attempt |-> result.attempt, value |-> <<>>,
                  exception |-> "none"]

\* The entry e is a call of delete_document in which a request raised
\* requests.RequestException.
DeleteRequestRaised(e) ==
    /\ e.event = "call"
    /\ \/ /\ e.outcome.kind = "raise"
          /\ e.outcome.exception = "RequestException"
       \/ /\ e.outcome.kind = "return"
          /\ e.outcome.value[1].message = "Network error"

\* C25 as stated: a RequestException of a request of delete_document leaves
\* the function body, so that the wrapper sleeps and calls it again, four
\* calls in all at most, and after the fourth failure the RequestException
\* reaches the caller.
C25_DeleteRetriesRequestException ==
    wrapper.func = "delete_document" =>
        \A i \in 1..Len(history) :
            DeleteRequestRaised(history[i]) =>
                IF history[i].attempt < Decorator.max_retries
                THEN /\ i < Len(history)
                     /\ history[i + 1].event = "sleep"
                ELSE /\ pc = "done"
                     /\ result.kind = "raised"
                     /\ result.exception = "RequestException"

---------------------------------------------------------------------------
(* The chat pages (main.py, main_GeminiCloud.py, pages/rag_rim.py): the    *)
(* handling of a submitted prompt.                                         *)

\* Prompts handled in one session, at most.
MaxPrompts == 2

\* The pages: impl names the page, and with it the clean_text it runs;
\* pages/rag_rim.py stores the answer as it is.
Pages == {"main", "gemini", "rag_rim"}

\* engine.query(prompt) raised.
QueryRaised == [tag |-> "raise", s |-> <<>>, d |-> NoDate]

\* What engine.query(prompt) ends in: response.response, a str or None, or
\* an exception.
QueryOutcomes ==
    {QueryRaised, PyNone, PyStr(<<>>), PyStr(<<"a">>), PyStr(<<"1", " ", " ", "1">>)}

Prompts == {<<"q">>, <<"q", "?">>}

\* One entry of st.session_state.messages.
Message(role, c) == [role |-> role, content |-> c]

\* error_msg of the page for the exception whose str() is e
ErrorText(page, e) ==
    IF page = "rag_rim" THEN <<"E", "r", "r", "o", "r", ":", " ", e>>
    ELSE <<"CROSSMARK", " ", "E", "r", "r", "o", "r", ":", " ", e>>

\* The content of the assistant message the try block or its except clause
\* appends.
AssistantContent(page, answer) ==
    IF answer.tag = "raise" THEN PyStr(ErrorText(page, "QUERYERROR"))
    ELSE IF page = "rag_rim" THEN answer
    ELSE IF answer.tag # "str" THEN PyStr(ErrorText(page, "TYPEERROR"))
    ELSE PyStr(clean_text(page, answer).s)

InitPrompt ==
    /\ pc = "idle"
    /\ impl \in Pages
    /\ response = PyNone
    /\ cleaned = NotCleaned /\ content = <<>> /\ shown = NotCleaned
    /\ messages = IF impl = "main"
                  THEN <<Message("assistant", PyStr(<<"H", "e", "l", "l", "o">>))>>
                  ELSE <<>>
    /\ ParseIdle /\ RerankIdle /\ CacheIdle /\ RetryIdle

\* if prompt := st.chat_input(...): the user message is appended, the query
\* is made, and the try block or its except clause appends the assistant
\* message.
HandlePrompt(prompt, answer) ==
    /\ pc \in {"idle", "prompted"}
    /\ Len(messages) + 2 <= 2 * MaxPrompts + 1
    /\ response' = answer
    /\ messages' = messages \o <<Message("user", PyStr(prompt)),
                                 Message("assistant", AssistantContent(impl, answer))>>
    /\ pc' = "prompted"
    /\ UNCHANGED <<impl, cleaned, content, shown, parse_vars, rerank_vars, cache_vars,
                   retry_vars>>

NextPrompt ==
    \E prompt \in Prompts, answer \in QueryOutcomes : HandlePrompt(prompt, answer)

SpecPrompt == InitPrompt /\ [][NextPrompt]_vars

---------------------------------------------------------------------------
(* Properties of the prompt handling (under SpecPrompt)                    *)

\* The answer as the page stores it: cleaned by clean_text in main.py and
\* main_GeminiCloud.py, as it is in pages/rag_rim.py.
StoredAnswer(page, answer) ==
    IF page = "rag_rim" THEN answer
    ELSE PyStr(clean_text(page, answer).s)

\* C30 as stated: handling one prompt appends exactly two entries to
\* st.session_state.messages: the user's message and then one assistant
\* message, which is the answer when the query succeeds and the error text
\* when the query raises; the messages already in the list are unchanged.
C30_UserThenAssistant ==
    [][messages' # messages =>
           /\ Len(messages') = Len(messages) + 2
           /\ SubSeq(messages', 1, Len(messages)) = messages
           /\ messages'[Len(messages) + 1].role = "user"
           /\ messages'[Len(messages) + 1].content.s \in Prompts
           /\ messages'[Len(messages) + 2].role = "assistant"
           /\ messages'[Len(messages) + 2].content =
                  IF response'.tag = "raise"
                  THEN PyStr(ErrorText(impl, "QUERYERROR"))
                  ELSE StoredAnswer(impl, response')
           /\ (response'.tag # "raise" /\ impl # "rag_rim") =>
                  clean_text(impl, response').tag = "str"]_vars

===========================================================================
